---- MODULE Spec2Model ----
(***************************************************************************)
(* Request-capture and analysis pipeline of the web scraper MCP server:    *)
(* WebsiteAnalyzer.analyzeWebsite (the orchestrator), the request/response *)
(* listeners of the capture monitor, the report assembler, the anti-bot    *)
(* heuristics, the BrowserManager and the tool handlers working on the     *)
(* URL -> report map.                                                      *)
(*                                                                         *)
(* Text is modelled as a sequence of tokens: String.includes is contiguous *)
(* sub-sequence search, new URL(...) is a parse of the token sequence, and *)
(* a long response body is a run-length encoded character sequence.        *)
(***************************************************************************)
EXTENDS Integers, Sequences, FiniteSets, TLC

\* ------------------------------------------------------------------ bounds

\* analyses (tool calls or direct calls of analyzeWebsite) per behaviour
MaxRuns == 2
\* request events emitted by all pages together, under Spec
MaxReqEvents == 1
\* request events emitted by the page, under SpecMonitor
MaxPageRequests == 2

Runs == 1..MaxRuns

\* an optional field: None is undefined, Some(v) is the value v
None == <<>>
Some(v) == <<v>>

\* ------------------------------------------------------------------ text

\* tokens of URL text
SchemeTok == {"https://", "ftp://"}
HostTok == {"example.com", "api.", "www.", "hcaptcha.com", "cloudflare.com",
            "google.com", "akamai.com"}

\* s.includes(frag): frag occurs in s as a contiguous run of tokens
Includes(s, frag) ==
  \E i \in 0..(Len(s) - Len(frag)) :
    \A j \in 1..Len(frag) : s[i + j] = frag[j]

\* new URL(u) succeeds: an absolute URL has a scheme followed by a host
UrlParses(u) ==
  /\ Len(u) >= 2
  /\ u[1] \in SchemeTok
  /\ u[2] \in HostTok

\* index of the last host token of a URL that parses
HostEnd(u) ==
  CHOOSE k \in 2..Len(u) :
    /\ \A j \in 2..k : u[j] \in HostTok
    /\ (k = Len(u) \/ u[k + 1] \notin HostTok)

\* new URL(u).hostname, for a URL that parses
Hostname(u) == SubSeq(u, 2, HostEnd(u))

\* s.toLowerCase(), token by token
LowerTok(t) ==
  CASE t = "CAPTCHA" -> "captcha"
    [] t = "Security Check" -> "security check"
    [] t = "Are you a robot" -> "are you a robot"
    [] t = "X-RateLimit" -> "x-ratelimit"
    [] t = "Retry-After" -> "retry-after"
    [] t = "Welcome to " -> "welcome to "
    [] OTHER -> t

toLowerCase(s) == [i \in 1..Len(s) |-> LowerTok(s[i])]

\* ------------------------------------------------- long strings (bodies)

\* A response body is a sequence of pieces [c, n]: the text c repeated n
\* times (c is a single character in every body a page delivers).
StrLen(s) ==
  LET RECURSIVE Sum(_)
      Sum(k) == IF k = 0 THEN 0 ELSE Sum(k - 1) + Len(s[k].c) * s[k].n
  IN Sum(Len(s))

\* the character at position i (1-based) of a body of single-character pieces
CharAt(s, i) ==
  LET RECURSIVE At(_, _)
      At(k, rest) == IF rest <= s[k].n THEN s[k].c ELSE At(k + 1, rest - s[k].n)
  IN At(1, i)

\* s.substring(0, k) of a body of single-character pieces
Substring0(s, k) ==
  LET RECURSIVE Take(_, _)
      Take(i, left) ==
        IF i > Len(s) \/ left <= 0 THEN <<>>
        ELSE IF s[i].n <= left THEN <<s[i]>> \o Take(i + 1, left - s[i].n)
        ELSE <<[c |-> s[i].c, n |-> left]>>
  IN Take(1, k)

\* ------------------------------------------------------------ config

\* config.limits.maxResponseBodySize
maxResponseBodySize == 50000

\* config.timeouts
defaultWait == 3000
quickModeWait == 1000

\* config.detection (the fragments the token universe can spell)
captchaDomains ==
  << <<"google.com", "/recaptcha">>,
     <<"hcaptcha.com">>,
     <<"cloudflare.com", "/cdn-cgi/challenge-platform">> >>

antiBotDomains == << <<"cloudflare.com">>, <<"akamai.com">> >>

rateLimitStatusCodes == {429}
rateLimitHeaders == << <<"rate-limit">>, <<"x-ratelimit">>, <<"retry-after">> >>
captchaTitleIndicators ==
  << <<"captcha">>, <<"security check">>, <<"are you a robot">> >>

TruncationSuffix == "\n... [Response body truncated - too large]"
FailedBody == <<[c |-> "[Failed to capture response body]", n |-> 1]>>

\* a function result: a returned value or a thrown error
Ok(v) == [ok |-> TRUE, val |-> v]
Throw(e) == [ok |-> FALSE, err |-> e]

\* ------------------------------------------------------- capture monitor

\* variant of shouldCaptureResponseBody: fonts are read like scripts
shouldCaptureResponseBody_fonts(resourceType, contentType) ==
  /\ resourceType # "image"
  /\ resourceType # "media"
  /\ ~Includes(contentType, <<"image/">>)
  /\ ~Includes(contentType, <<"video/">>)
  /\ ~Includes(contentType, <<"audio/">>)
  /\ ~Includes(contentType, <<"application/octet-stream">>)

\* RequestMonitor.shouldCaptureResponseBody
shouldCaptureResponseBody(resourceType, contentType) ==
  /\ resourceType # "image"
  /\ resourceType # "media"
  /\ resourceType # "font"
  /\ ~Includes(contentType, <<"image/">>)
  /\ ~Includes(contentType, <<"video/">>)
  /\ ~Includes(contentType, <<"audio/">>)
  /\ ~Includes(contentType, <<"application/octet-stream">>)

\* variant of truncateResponseBody: a body of exactly the limit is cut too
truncateResponseBody_atLimit(responseBody) ==
  IF StrLen(responseBody) >= maxResponseBodySize
    THEN Substring0(responseBody, maxResponseBodySize)
           \o <<[c |-> TruncationSuffix, n |-> 1]>>
    ELSE responseBody

\* RequestMonitor.truncateResponseBody
truncateResponseBody(responseBody) ==
  IF StrLen(responseBody) > maxResponseBodySize
    THEN Substring0(responseBody, maxResponseBodySize)
           \o <<[c |-> TruncationSuffix, n |-> 1]>>
    ELSE responseBody

\* !req.status: the status is undefined or 0
NoStatus(req) == req.status = None \/ req.status = Some(0)

\* variant of findIndex: the first exchange of that URL, answered or not
findIndex_any(capturedRequests, url) ==
  LET hits == {i \in 1..Len(capturedRequests) : capturedRequests[i].url = url}
  IN IF hits = {} THEN 0 ELSE CHOOSE i \in hits : \A j \in hits : i <= j

\* variant of findIndex: the last unresolved exchange of that URL
findIndex_last(capturedRequests, url) ==
  LET hits == {i \in 1..Len(capturedRequests) :
                 /\ capturedRequests[i].url = url
                 /\ NoStatus(capturedRequests[i])}
  IN IF hits = {} THEN 0 ELSE CHOOSE i \in hits : \A j \in hits : i >= j

\* capturedRequests.findIndex(req => req.url === url && !req.status);
\* 0 stands for the -1 of the source (sequences are 1-based)
findIndex(capturedRequests, url) ==
  LET hits == {i \in 1..Len(capturedRequests) :
                 /\ capturedRequests[i].url = url
                 /\ NoStatus(capturedRequests[i])}
  IN IF hits = {} THEN 0 ELSE CHOOSE i \in hits : \A j \in hits : i <= j

\* headers["content-type"] || ""
ContentTypeOf(headers) ==
  IF <<"content-type">> \in DOMAIN headers THEN headers[<<"content-type">>] ELSE <<>>

\* ---------------------------------------------------- security heuristics

\* Array.prototype.find, given the indexes whose elements satisfy the test:
\* the first such element, as an optional
Find(seq, hits) ==
  IF hits = {} THEN None
  ELSE Some(seq[CHOOSE i \in hits : \A j \in hits : i <= j])

\* fragments.some(f => s.includes(f))
IncludesSome(s, fragments) ==
  \E k \in 1..Len(fragments) : Includes(s, fragments[k])

\* `${status}` of a template string
StatusText(status) ==
  IF status = None THEN <<"undefined">>
  ELSE CASE status[1] = 200 -> <<"200">>
         [] status[1] = 429 -> <<"429">>
         [] status[1] = 404 -> <<"404">>
         [] OTHER -> <<"status">>

Verdict(detected, type, text, arg) ==
  [detected |-> detected, type |-> type, details |-> [text |-> text, arg |-> arg]]

\* Object.keys(req.responseHeaders).some(header => rateLimitHeaders.some(...))
HasRateLimitHeader(req) ==
  /\ req.responseHeaders # None
  /\ \E header \in DOMAIN req.responseHeaders[1] :
       IncludesSome(toLowerCase(header), rateLimitHeaders)

\* capturedRequests.find(req => captchaDomains.some(d => req.url.includes(d)))
captchaRequestOf(capturedRequests) ==
  Find(capturedRequests,
       {i \in 1..Len(capturedRequests) :
          IncludesSome(capturedRequests[i].url, captchaDomains)})

\* capturedRequests.find(req => rate-limit status || rate-limit header)
rateLimitResponseOf(capturedRequests) ==
  Find(capturedRequests,
       {i \in 1..Len(capturedRequests) :
          \/ /\ capturedRequests[i].status # None
             /\ capturedRequests[i].status[1] \in rateLimitStatusCodes
          \/ HasRateLimitHeader(capturedRequests[i])})

\* capturedRequests.find(req => antiBotDomains.some(d => req.url.includes(d)))
antiBotRequestOf(capturedRequests) ==
  Find(capturedRequests,
       {i \in 1..Len(capturedRequests) :
          IncludesSome(capturedRequests[i].url, antiBotDomains)})

\* captchaTitleIndicators.some(i => title.toLowerCase().includes(i))
hasCaptchaInTitle(title) ==
  IncludesSome(toLowerCase(title), captchaTitleIndicators)

\* `... ${new URL(req.url).hostname}`, which throws on a URL that does not parse
HostVerdict(type, text, req) ==
  IF UrlParses(req.url) THEN Ok(Verdict(TRUE, type, text, Hostname(req.url)))
  ELSE Throw("TypeError: Invalid URL")

\* variant of detectAntiBotSystems: the title is looked at before the requests
detectAntiBotSystems_titleFirst(capturedRequests, title) ==
  IF hasCaptchaInTitle(title)
    THEN Ok(Verdict(TRUE, "captcha", "Captcha indicated in page title", <<>>))
  ELSE IF captchaRequestOf(capturedRequests) # None
    THEN HostVerdict("captcha", "Captcha detected from domain: ",
                     captchaRequestOf(capturedRequests)[1])
  ELSE IF rateLimitResponseOf(capturedRequests) # None
    THEN Ok(Verdict(TRUE, "rate-limiting",
                    "Rate limiting detected with status code: ",
                    StatusText(rateLimitResponseOf(capturedRequests)[1].status)))
  ELSE IF antiBotRequestOf(capturedRequests) # None
    THEN HostVerdict("behavioral-analysis", "Anti-bot service detected from domain: ",
                     antiBotRequestOf(capturedRequests)[1])
  ELSE Ok(Verdict(FALSE, "", "", <<>>))

\* SecurityAnalyzer.detectAntiBotSystems
detectAntiBotSystems(capturedRequests, title) ==
  IF captchaRequestOf(capturedRequests) # None
    THEN HostVerdict("captcha", "Captcha detected from domain: ",
                     captchaRequestOf(capturedRequests)[1])
  ELSE IF rateLimitResponseOf(capturedRequests) # None
    THEN Ok(Verdict(TRUE, "rate-limiting",
                    "Rate limiting detected with status code: ",
                    StatusText(rateLimitResponseOf(capturedRequests)[1].status)))
  ELSE IF antiBotRequestOf(capturedRequests) # None
    THEN HostVerdict("behavioral-analysis", "Anti-bot service detected from domain: ",
                     antiBotRequestOf(capturedRequests)[1])
  ELSE IF hasCaptchaInTitle(title)
    THEN Ok(Verdict(TRUE, "captcha", "Captcha indicated in page title", <<>>))
  ELSE Ok(Verdict(FALSE, "", "", <<>>))

\* --------------------------------------------------------- report assembler

\* variant of Dedup: the last occurrences, in order
Dedup_lastSeen(seq) ==
  LET RECURSIVE Go(_)
      Go(k) ==
        IF k = 0 THEN <<>>
        ELSE IF \E j \in (k + 1)..Len(seq) : seq[j] = seq[k] THEN Go(k - 1)
        ELSE Append(Go(k - 1), seq[k])
  IN Go(Len(seq))

\* acc[key] = value on a plain object
MapSetKey(acc, key, value) ==
  [x \in DOMAIN acc \cup {key} |-> IF x = key THEN value ELSE acc[x]]

\* Array.from(new Set(seq)): first occurrences, in order
Dedup(seq) ==
  LET RECURSIVE Go(_)
      Go(k) ==
        IF k = 0 THEN <<>>
        ELSE IF \E j \in 1..(k - 1) : seq[j] = seq[k] THEN Go(k - 1)
        ELSE Append(Go(k - 1), seq[k])
  IN Go(Len(seq))

\* try { new URL(req.url).hostname } catch { "invalid-url" }
DomainOf(req) == IF UrlParses(req.url) THEN Hostname(req.url) ELSE <<"invalid-url">>

\* variant of countByType: a type seen again is not counted again
countByType_once(capturedRequests) ==
  [t \in {capturedRequests[i].resourceType : i \in 1..Len(capturedRequests)} |-> 1]

\* capturedRequests.reduce((acc, req) => { acc[req.resourceType] =
\* (acc[req.resourceType] || 0) + 1; return acc; }, {})
countByType(capturedRequests) ==
  LET RECURSIVE Reduce(_)
      Reduce(k) ==
        IF k = 0 THEN <<>>
        ELSE LET acc == Reduce(k - 1)
                 t == capturedRequests[k].resourceType
             IN MapSetKey(acc, t, (IF t \in DOMAIN acc THEN acc[t] ELSE 0) + 1)
  IN Reduce(Len(capturedRequests))

\* WebsiteAnalyzer.generateAnalysisResult. requestsRef names the array object
\* the report's requests field refers to (the array is not copied);
\* capturedRequests is its content at the time of the call.
generateAnalysisResult(url, title, requestsRef, capturedRequests, renderMethod, browserStorage, now) ==
  LET uniqueDomains ==
        Dedup([i \in 1..Len(capturedRequests) |-> DomainOf(capturedRequests[i])])
      requestsByType == countByType(capturedRequests)
      antiBotDetection == detectAntiBotSystems(capturedRequests, title)
  IN IF ~antiBotDetection.ok THEN antiBotDetection
     ELSE Ok([url |-> url,
              title |-> title,
              requests |-> requestsRef,
              totalRequests |-> Len(capturedRequests),
              uniqueDomains |-> uniqueDomains,
              requestsByType |-> requestsByType,
              analysisTimestamp |-> now,
              renderMethod |-> renderMethod,
              antiBotDetection |-> antiBotDetection.val,
              browserStorage |-> browserStorage])

\* ------------------------------------------------------------ tool handlers

McpError(code, message) == Throw([cls |-> "McpError", code |-> code, message |-> message])

\* generateAnalysisSummary(result); requests is the content of result.requests
generateAnalysisSummary(result, requests) ==
  [websiteInfo |-> [url |-> result.url,
                    title |-> result.title,
                    analysisTimestamp |-> result.analysisTimestamp,
                    renderMethod |-> result.renderMethod],
   requestSummary |-> [totalRequests |-> result.totalRequests,
                       uniqueDomains |-> Len(result.uniqueDomains),
                       requestsByType |-> result.requestsByType],
   domains |-> [i \in 1..Len(result.uniqueDomains) |->
                  [domain |-> result.uniqueDomains[i],
                   requestCount |->
                     Len(SelectSeq(requests,
                                   LAMBDA req :
                                     /\ UrlParses(req.url)
                                     /\ Hostname(req.url) = result.uniqueDomains[i]))]],
   antiBotDetection |-> result.antiBotDetection,
   browserStorage |-> result.browserStorage]

\* the projection of one exchange returned by get_requests_by_domain
Projection(req) ==
  [id |-> req.id, url |-> req.url, method |-> req.method,
   resourceType |-> req.resourceType, status |-> req.status,
   timestamp |-> req.timestamp]

\* ------------------------------------------------------------------- state

VARIABLES
  browser,          \* BrowserManager.browser is not null
  context,          \* BrowserManager.context is not null
  pc,               \* per call of analyzeWebsite: the await it is suspended at
  call,             \* per call: how it was made and the resolved arguments
  page,             \* per call: "none", "open", "closed" or "closeFailed"
  capturedRequests, \* per call: the capturedRequests array
  requestEvents,    \* per call: the request events its page emitted (history)
  textPending,      \* per call: the response.text() reads in flight, each with
                    \* the index of its exchange and the body of its response
  local,            \* per call: the locals of analyzeWebsite
  returned,         \* per call: what analyzeWebsite returned or threw
  response,         \* per call: what the analyze tool answered
  analysisResults,  \* MCPToolHandlers.analysisResults, the URL -> report map
  lastRead          \* the answer of the read-only tool called in the latest step

vars == <<browser, context, pc, call, page, capturedRequests, requestEvents,
          textPending, local, returned, response, analysisResults, lastRead>>

NoCall == [via |-> "none", url |-> <<>>, waitTime |-> 0,
           includeImages |-> FALSE, quickMode |-> FALSE]

NoLocal == [idleTimedOut |-> None, waited |-> None, title |-> None,
            renderMethod |-> None, storageReads |-> None,
            browserStorage |-> None, error |-> None, result |-> None,
            closeCalls |-> 0,
            content |-> None]   \* the markup or document of the page, where modelled

\* MCPToolHandlers and BrowserManager after construction; no call made yet
Init ==
  /\ browser = FALSE
  /\ context = FALSE
  /\ pc = [r \in Runs |-> "idle"]
  /\ call = [r \in Runs |-> NoCall]
  /\ page = [r \in Runs |-> "none"]
  /\ capturedRequests = [r \in Runs |-> <<>>]
  /\ requestEvents = [r \in Runs |-> <<>>]
  /\ textPending = [r \in Runs |-> {}]
  /\ local = [r \in Runs |-> NoLocal]
  /\ returned = [r \in Runs |-> None]
  /\ response = [r \in Runs |-> None]
  /\ analysisResults = <<>>
  /\ lastRead = None

\* Map.prototype.get / set on the URL -> report map
MapHas(m, k) == k \in DOMAIN m
MapSet(m, k, v) == [x \in DOMAIN m \cup {k} |-> IF x = k THEN v ELSE m[x]]

Error(msg) == [cls |-> "Error", message |-> msg]

\* the catch block of handleAnalyzeWebsite
AnalyzeErrorToMcp(error) ==
  IF error.cls = "InvalidUrlError" THEN McpError("InvalidParams", error.message)
  ELSE IF error.cls = "AnalysisTimeoutError" THEN McpError("RequestTimeout", error.message)
  ELSE IF error.cls = "ResourceNotFoundError" THEN McpError("InvalidParams", error.message)
  ELSE McpError("InternalError", <<"Unknown analysis error">>)

\* variant of Settle: a report already stored for the URL is not replaced
Settle_keepFirst(r, via, url, out, requests) ==
  /\ pc' = [pc EXCEPT ![r] = "done"]
  /\ returned' = [returned EXCEPT ![r] = Some(out)]
  /\ IF via = "tool"
       THEN IF out.ok
              THEN /\ analysisResults' =
                        IF MapHas(analysisResults, url) THEN analysisResults
                        ELSE MapSet(analysisResults, url, out.val)
                   /\ response' = [response EXCEPT ![r] =
                                     Some(Ok(generateAnalysisSummary(out.val, requests)))]
              ELSE /\ response' = [response EXCEPT ![r] = Some(AnalyzeErrorToMcp(out.err))]
                   /\ UNCHANGED analysisResults
       ELSE UNCHANGED <<analysisResults, response>>

\* variant of Settle: a failed tool call evicts the report stored for its URL
Settle_evict(r, via, url, out, requests) ==
  /\ pc' = [pc EXCEPT ![r] = "done"]
  /\ returned' = [returned EXCEPT ![r] = Some(out)]
  /\ IF via = "tool"
       THEN IF out.ok
              THEN /\ analysisResults' = MapSet(analysisResults, url, out.val)
                   /\ response' = [response EXCEPT ![r] =
                                     Some(Ok(generateAnalysisSummary(out.val, requests)))]
              ELSE /\ response' = [response EXCEPT ![r] = Some(AnalyzeErrorToMcp(out.err))]
                   /\ analysisResults' =
                        [x \in DOMAIN analysisResults \ {url} |-> analysisResults[x]]
       ELSE UNCHANGED <<analysisResults, response>>

\* analyzeWebsite settles with out (a returned report or a thrown error). For
\* a tool call the continuation of handleAnalyzeWebsite runs in the same
\* turn of the event loop: store the report, build the summary, or map the
\* error. requests is the content of the capturedRequests array of the call.
Settle(r, via, url, out, requests) ==
  /\ pc' = [pc EXCEPT ![r] = "done"]
  /\ returned' = [returned EXCEPT ![r] = Some(out)]
  /\ IF via = "tool"
       THEN IF out.ok
              THEN /\ analysisResults' = MapSet(analysisResults, url, out.val)
                   /\ response' = [response EXCEPT ![r] =
                                     Some(Ok(generateAnalysisSummary(out.val, requests)))]
              ELSE /\ response' = [response EXCEPT ![r] = Some(AnalyzeErrorToMcp(out.err))]
                   /\ UNCHANGED analysisResults
       ELSE UNCHANGED <<analysisResults, response>>

\* no call of analyzeWebsite is in flight
Quiet == \A r \in Runs : pc[r] \in {"idle", "done"}

\* Calls are numbered in the order they are made; the client waits for the
\* answer to one call before it makes the next.
MayStart(r) == Quiet /\ pc[r] = "idle" /\ (IF r = 1 THEN TRUE ELSE pc[r - 1] = "done")

\* Calls are numbered in the order they are made; a client may make a call
\* while earlier ones are still in flight.
MayStartConcurrently(r) ==
  pc[r] = "idle" /\ (IF r = 1 THEN TRUE ELSE pc[r - 1] # "idle")

\* variant of analyzeWebsiteStart: the URL is not validated
analyzeWebsiteStart_unchecked(r, via, url, waitTime, includeImages, quickMode) ==
  /\ call' = [call EXCEPT ![r] = [via |-> via, url |-> url, waitTime |-> waitTime,
                                  includeImages |-> includeImages,
                                  quickMode |-> quickMode]]
  /\ UNCHANGED <<browser, context, page, capturedRequests, requestEvents,
                 textPending, local, returned, response, analysisResults>>
  /\ lastRead' = None
  /\ pc' = [pc EXCEPT ![r] = IF ~browser THEN "launch"
                             ELSE IF ~context THEN "newContext"
                             ELSE "newPage"]

\* variant of analyzeWebsiteStart: initialize() launches whether or not a
\* browser exists
analyzeWebsiteStart_relaunch(r, via, url, waitTime, includeImages, quickMode) ==
  /\ call' = [call EXCEPT ![r] = [via |-> via, url |-> url, waitTime |-> waitTime,
                                  includeImages |-> includeImages,
                                  quickMode |-> quickMode]]
  /\ UNCHANGED <<browser, context, page, capturedRequests, requestEvents,
                 textPending, local>>
  /\ lastRead' = None
  /\ IF ~UrlParses(url)
       THEN Settle(r, via, url,
                   Throw(Error(<<"Invalid URL provided. Please include http:// or https://">>)),
                   <<>>)
       ELSE /\ pc' = [pc EXCEPT ![r] = "launch"]
            /\ UNCHANGED <<returned, response, analysisResults>>

\* The synchronous start of analyzeWebsite: URL validation, then
\* browserManager.initialize() up to its first await, or, with browser and
\* context present, on to context.newPage().
analyzeWebsiteStart(r, via, url, waitTime, includeImages, quickMode) ==
  /\ call' = [call EXCEPT ![r] = [via |-> via, url |-> url, waitTime |-> waitTime,
                                  includeImages |-> includeImages,
                                  quickMode |-> quickMode]]
  /\ UNCHANGED <<browser, context, page, capturedRequests, requestEvents,
                 textPending, local>>
  /\ lastRead' = None
  /\ IF ~UrlParses(url)
       THEN Settle(r, via, url,
                   Throw(Error(<<"Invalid URL provided. Please include http:// or https://">>)),
                   <<>>)
       ELSE /\ pc' = [pc EXCEPT ![r] = IF ~browser THEN "launch"
                                       ELSE IF ~context THEN "newContext"
                                       ELSE "newPage"]
            /\ UNCHANGED <<returned, response, analysisResults>>

\* An optional argument is None, Some(v) with v of the type the schema asks
\* for, or a value of another type, written as a pair.
Mistyped == <<"string", "invalid">>

\* AnalysisOptionsSchema.parse(options): z.string().url() accepts what
\* new URL() accepts, whatever the scheme
AnalysisOptionsValid(options) ==
  /\ UrlParses(options.url)
  /\ options.waitTime # None =>
       /\ options.waitTime # Mistyped
       /\ options.waitTime[1] >= 0
       /\ options.waitTime[1] <= 10000
  /\ options.includeImages # Mistyped
  /\ options.quickMode # Mistyped

OrElse(opt, default) == IF opt = None THEN default ELSE opt[1]

\* handleAnalyzeWebsite up to its await of analyzer.analyzeWebsite
AnalyzeTool(r, options) ==
  /\ pc[r] = "idle"
  /\ IF ~AnalysisOptionsValid(options)
       THEN /\ pc' = [pc EXCEPT ![r] = "done"]
            /\ call' = [call EXCEPT ![r] = [NoCall EXCEPT !.via = "tool", !.url = options.url]]
            /\ response' = [response EXCEPT ![r] =
                              Some(McpError("InvalidParams", <<"Invalid parameters">>))]
            /\ lastRead' = None
            /\ UNCHANGED <<browser, context, page, capturedRequests, requestEvents,
                           textPending, local, returned, analysisResults>>
       ELSE LET waitTime == OrElse(options.waitTime, defaultWait)
                includeImages == OrElse(options.includeImages, FALSE)
                quickMode == OrElse(options.quickMode, FALSE)
            IN analyzeWebsiteStart(r, "tool", options.url,
                                   IF quickMode THEN quickModeWait ELSE waitTime,
                                   includeImages, quickMode)

\* the analyze_website_requests tool, called by a client that waits for each
\* answer before its next call
handleAnalyzeWebsite(r, options) ==
  /\ MayStart(r)
  /\ AnalyzeTool(r, options)

\* WebsiteAnalyzer.analyzeWebsite called directly (not through the tool)
analyzeWebsite(r, options) ==
  /\ MayStart(r)
  /\ analyzeWebsiteStart(r, "direct", options.url,
                         OrElse(options.waitTime, 3000),
                         OrElse(options.includeImages, FALSE),
                         OrElse(options.quickMode, FALSE))

\* ------------------------------------------------------------ orchestrator

\* An await that rejects outside the try block: analyzeWebsite rejects with
\* the raw error and no page is open.
Reject(r, error) ==
  Settle(r, call[r].via, call[r].url, Throw(error), capturedRequests[r])

\* An await that rejects inside the try block enters the catch block, which
\* calls page.close() and suspends on it.
Catch(r, error) ==
  /\ pc' = [pc EXCEPT ![r] = "catchClose"]
  /\ local' = [local EXCEPT ![r].error = Some(error),
                            ![r].closeCalls = local[r].closeCalls + 1]

\* BrowserManager.initialize: chromium.launch() settles
LaunchDone(r, err) ==
  /\ pc[r] = "launch"
  /\ UNCHANGED <<context, call, page, capturedRequests, requestEvents,
                 textPending, local>>
  /\ lastRead' = None
  /\ IF err = None
       THEN /\ browser' = TRUE
            /\ pc' = [pc EXCEPT ![r] = IF ~context THEN "newContext" ELSE "newPage"]
            /\ UNCHANGED <<returned, response, analysisResults>>
       ELSE /\ Reject(r, err[1])
            /\ UNCHANGED browser

\* BrowserManager.initialize: browser.newContext() settles
ContextDone(r, err) ==
  /\ pc[r] = "newContext"
  /\ UNCHANGED <<browser, call, page, capturedRequests, requestEvents,
                 textPending, local>>
  /\ lastRead' = None
  /\ IF err = None
       THEN /\ context' = TRUE
            /\ pc' = [pc EXCEPT ![r] = "newPage"]
            /\ UNCHANGED <<returned, response, analysisResults>>
       ELSE /\ Reject(r, err[1])
            /\ UNCHANGED context

\* variant of NewPageDone: page.goto() is called before the listeners are
\* attached
NewPageDone_bare(r, err) ==
  /\ pc[r] = "newPage"
  /\ UNCHANGED <<browser, context, call, requestEvents, textPending, local,
                 page, capturedRequests>>
  /\ lastRead' = None
  /\ IF err = None
       THEN /\ pc' = [pc EXCEPT ![r] = "goto"]
            /\ UNCHANGED <<returned, response, analysisResults>>
       ELSE Reject(r, err[1])

\* context.newPage() settles; on success the listeners are attached to the
\* new page and page.goto() is called before anything else can run
NewPageDone(r, err) ==
  /\ pc[r] = "newPage"
  /\ UNCHANGED <<browser, context, call, requestEvents, textPending, local>>
  /\ lastRead' = None
  /\ IF err = None
       THEN /\ page' = [page EXCEPT ![r] = "open"]
            /\ capturedRequests' = [capturedRequests EXCEPT ![r] = <<>>]
            /\ pc' = [pc EXCEPT ![r] = "goto"]
            /\ UNCHANGED <<returned, response, analysisResults>>
       ELSE /\ Reject(r, err[1])
            /\ UNCHANGED <<page, capturedRequests>>

\* page.goto(url, {waitUntil: "domcontentloaded", timeout: 30000}) settles
GotoDone(r, err) ==
  /\ pc[r] = "goto"
  /\ UNCHANGED <<browser, context, call, page, capturedRequests, requestEvents,
                 textPending, returned, response, analysisResults>>
  /\ lastRead' = None
  /\ IF err = None
       THEN /\ pc' = [pc EXCEPT ![r] = "networkidle"]
            /\ UNCHANGED local
       ELSE Catch(r, err[1])

Min(a, b) == IF a < b THEN a ELSE b

\* variant of actualWaitTime: the requested time is not capped
actualWaitTime_uncapped(waitTime, quickMode) ==
  IF quickMode THEN 1000 ELSE waitTime

\* quickMode ? 1000 : Math.min(waitTime, 10000)
actualWaitTime(waitTime, quickMode) ==
  IF quickMode THEN 1000 ELSE Min(waitTime, 10000)

\* variant of NetworkIdleDone: the timeout of the wait for network idle is
\* not caught and enters the catch block of analyzeWebsite
NetworkIdleDone_fatal(r, timedOut) ==
  /\ pc[r] = "networkidle"
  /\ UNCHANGED <<browser, context, call, page, capturedRequests, requestEvents,
                 textPending, returned, response, analysisResults>>
  /\ lastRead' = None
  /\ LET t == actualWaitTime(call[r].waitTime, call[r].quickMode)
     IN IF timedOut
          THEN /\ pc' = [pc EXCEPT ![r] = "catchClose"]
               /\ local' = [local EXCEPT ![r].idleTimedOut = Some(TRUE),
                                         ![r].error = Some(Error(<<"Timeout">>)),
                                         ![r].closeCalls = local[r].closeCalls + 1]
          ELSE IF t > 0
            THEN /\ local' = [local EXCEPT ![r].idleTimedOut = Some(FALSE),
                                           ![r].waited = Some(t)]
                 /\ pc' = [pc EXCEPT ![r] = "wait"]
            ELSE /\ pc' = [pc EXCEPT ![r] = "title"]
                 /\ local' = [local EXCEPT ![r].idleTimedOut = Some(FALSE)]

\* waitForNetworkStability settles (a timeout is logged and swallowed), then
\* the dynamic-content wait is resolved: page.waitForTimeout is called only
\* for a positive duration, otherwise page.title() is called at once
NetworkIdleDone(r, timedOut) ==
  /\ pc[r] = "networkidle"
  /\ UNCHANGED <<browser, context, call, page, capturedRequests, requestEvents,
                 textPending, returned, response, analysisResults>>
  /\ lastRead' = None
  /\ LET t == actualWaitTime(call[r].waitTime, call[r].quickMode)
     IN IF t > 0
          THEN /\ local' = [local EXCEPT ![r].idleTimedOut = Some(timedOut),
                                         ![r].waited = Some(t)]
               /\ pc' = [pc EXCEPT ![r] = "wait"]
          ELSE /\ pc' = [pc EXCEPT ![r] = "title"]
               /\ local' = [local EXCEPT ![r].idleTimedOut = Some(timedOut)]

\* page.waitForTimeout(actualWaitTime) settles
WaitDone(r, err) ==
  /\ pc[r] = "wait"
  /\ UNCHANGED <<browser, context, call, page, capturedRequests, requestEvents,
                 textPending, returned, response, analysisResults>>
  /\ lastRead' = None
  /\ IF err = None
       THEN /\ pc' = [pc EXCEPT ![r] = "title"]
            /\ UNCHANGED local
       ELSE Catch(r, err[1])

\* page.title() settles
TitleDone(r, title, err) ==
  /\ pc[r] = "title"
  /\ UNCHANGED <<browser, context, call, page, capturedRequests, requestEvents,
                 textPending, returned, response, analysisResults>>
  /\ lastRead' = None
  /\ IF err = None
       THEN /\ pc' = [pc EXCEPT ![r] = "content"]
            /\ local' = [local EXCEPT ![r].title = Some(title)]
       ELSE Catch(r, err[1])

\* detectRenderMethod settles; it catches its own failures
RenderMethodDone(r, renderMethod) ==
  /\ pc[r] = "content"
  /\ UNCHANGED <<browser, context, call, page, capturedRequests, requestEvents,
                 textPending, returned, response, analysisResults>>
  /\ lastRead' = None
  /\ pc' = [pc EXCEPT ![r] = "storage"]
  /\ local' = [local EXCEPT ![r].renderMethod = Some(renderMethod)]

\* variant of captureBrowserStorage: a failed read leaves its field empty
captureBrowserStorage_partial(reads) ==
  Some([cookies |-> IF reads.cookies.ok THEN reads.cookies.val ELSE <<>>,
        localStorage |-> IF reads.localStorage.ok THEN reads.localStorage.val ELSE <<>>,
        sessionStorage |-> IF reads.sessionStorage.ok THEN reads.sessionStorage.val
                           ELSE <<>>])

\* captureBrowserStorage, given how page.context().cookies() and the two
\* page.evaluate() calls settle: the first rejection enters the catch block,
\* which returns undefined
captureBrowserStorage(reads) ==
  IF ~reads.cookies.ok THEN None
  ELSE IF ~reads.localStorage.ok THEN None
  ELSE IF ~reads.sessionStorage.ok THEN None
  ELSE Some([cookies |-> reads.cookies.val,
             localStorage |-> reads.localStorage.val,
             sessionStorage |-> reads.sessionStorage.val])

\* captureBrowserStorage settles, its reads having settled as in reads; the
\* report is assembled and page.close() is called in the same turn
StorageDone(r, reads) ==
  /\ pc[r] = "storage"
  /\ UNCHANGED <<browser, context, call, page, capturedRequests, requestEvents,
                 textPending, returned, response, analysisResults>>
  /\ lastRead' = None
  /\ LET browserStorage == captureBrowserStorage(reads)
         analysisResult ==
           generateAnalysisResult(call[r].url, local[r].title[1], r,
                                  capturedRequests[r], local[r].renderMethod[1],
                                  browserStorage, r)
     IN IF analysisResult.ok
          THEN /\ pc' = [pc EXCEPT ![r] = "close"]
               /\ local' = [local EXCEPT ![r].storageReads = Some(reads),
                                         ![r].browserStorage = browserStorage,
                                         ![r].result = Some(analysisResult.val),
                                         ![r].closeCalls = local[r].closeCalls + 1]
          ELSE /\ pc' = [pc EXCEPT ![r] = "catchClose"]
               /\ local' = [local EXCEPT ![r].storageReads = Some(reads),
                                         ![r].browserStorage = browserStorage,
                                         ![r].error = Some(Error(<<analysisResult.err>>)),
                                         ![r].closeCalls = local[r].closeCalls + 1]

\* variant of CloseDone: the report is returned while the page is still open
CloseDone_leak(r, err) ==
  /\ pc[r] = "close"
  /\ UNCHANGED <<browser, context, call, page, capturedRequests, requestEvents,
                 textPending, local>>
  /\ lastRead' = None
  /\ Settle(r, call[r].via, call[r].url, Ok(local[r].result[1]), capturedRequests[r])

\* page.close() of the try block settles. On success analyzeWebsite returns
\* the report; a rejection is caught by the catch block like any other.
CloseDone(r, err) ==
  /\ pc[r] = "close"
  /\ UNCHANGED <<browser, context, call, capturedRequests, requestEvents,
                 textPending>>
  /\ lastRead' = None
  /\ IF err = None
       THEN /\ page' = [page EXCEPT ![r] = "closed"]
            /\ Settle(r, call[r].via, call[r].url, Ok(local[r].result[1]),
                      capturedRequests[r])
            /\ UNCHANGED local
       ELSE /\ Catch(r, err[1])
            /\ UNCHANGED <<page, returned, response, analysisResults>>

\* variant of ClassifyError: timeouts are not told apart
ClassifyError_noTimeout(error, url) ==
  IF error.cls = "Error"
    THEN Error(<<"Failed to analyze website: ">> \o error.message)
    ELSE error

\* the error analyzeWebsite throws from its catch block
ClassifyError(error, url) ==
  IF error.cls = "Error"
    THEN IF Includes(error.message, <<"timeout">>)
           THEN Error(<<"Website analysis timed out for ">> \o url
                      \o <<". The site may be slow to load or have blocking resources.">>)
           ELSE Error(<<"Failed to analyze website: ">> \o error.message)
    ELSE error

\* variant of CatchCloseDone: the catch block throws without closing the page
CatchCloseDone_noClose(r, err) ==
  /\ pc[r] = "catchClose"
  /\ UNCHANGED <<browser, context, call, page, capturedRequests, requestEvents,
                 textPending, local>>
  /\ lastRead' = None
  /\ Settle(r, call[r].via, call[r].url,
            Throw(ClassifyError(local[r].error[1], call[r].url)),
            capturedRequests[r])

\* page.close() of the catch block settles
CatchCloseDone(r, err) ==
  /\ pc[r] = "catchClose"
  /\ UNCHANGED <<browser, context, call, capturedRequests, requestEvents,
                 textPending, local>>
  /\ lastRead' = None
  /\ IF err = None
       THEN /\ page' = [page EXCEPT ![r] = "closed"]
            /\ Settle(r, call[r].via, call[r].url,
                      Throw(ClassifyError(local[r].error[1], call[r].url)),
                      capturedRequests[r])
       ELSE /\ page' = [page EXCEPT ![r] = "closeFailed"]
            /\ Reject(r, err[1])

\* ------------------------------------------------------------- page events

\* number of request events all pages have emitted
RequestsEmitted ==
  LET RECURSIVE Sum(_)
      Sum(r) == IF r = 0 THEN 0 ELSE Sum(r - 1) + Len(requestEvents[r])
  IN Sum(MaxRuns)

\* request.headers() of the requests the pages make (all GET, no post data)
RequestHeaders == [n \in {<<"accept">>} |-> <<"*/*">>]

\* the exchange the request listener builds; ids are fresh (randomUUID)
NewExchange(r, n, url, resourceType) ==
  [id |-> <<r, n>>, url |-> url, method |-> "GET", headers |-> RequestHeaders,
   postData |-> None, timestamp |-> n, resourceType |-> resourceType,
   status |-> None, responseHeaders |-> None, responseBody |-> None]

\* variant of AfterRequest: every request is recorded
AfterRequest_all(list, r, n, url, resourceType, includeImages) ==
  Append(list, NewExchange(r, n, url, resourceType))

\* what the request listener leaves in the array
AfterRequest(list, r, n, url, resourceType, includeImages) ==
  IF ~includeImages /\ (resourceType = "image" \/ resourceType = "media")
    THEN list
    ELSE Append(list, NewExchange(r, n, url, resourceType))

\* variant of OnRequest: the exchanges of every page go to one array
OnRequest_shared(r, url, resourceType, cap) ==
  /\ page[r] = "open"
  /\ RequestsEmitted < cap
  /\ requestEvents' = [requestEvents EXCEPT ![r] =
                         Append(@, [url |-> url, resourceType |-> resourceType,
                                    responded |-> FALSE])]
  /\ capturedRequests' = [capturedRequests EXCEPT ![1] =
                            AfterRequest(@, r, Len(requestEvents[r]) + 1, url,
                                         resourceType, call[r].includeImages)]
  /\ UNCHANGED <<browser, context, pc, call, page, textPending, local, returned,
                 response, analysisResults>>
  /\ lastRead' = None

\* page.on("request", ...): the page of call r requests url
OnRequest(r, url, resourceType, cap) ==
  /\ page[r] = "open"
  /\ RequestsEmitted < cap
  /\ requestEvents' = [requestEvents EXCEPT ![r] =
                         Append(@, [url |-> url, resourceType |-> resourceType,
                                    responded |-> FALSE])]
  /\ capturedRequests' = [capturedRequests EXCEPT ![r] =
                            AfterRequest(@, r, Len(requestEvents[r]) + 1, url,
                                         resourceType, call[r].includeImages)]
  /\ UNCHANGED <<browser, context, pc, call, page, textPending, local, returned,
                 response, analysisResults>>
  /\ lastRead' = None

\* captureResponseData up to its await: the array after status and headers
\* of the matching exchange are set
AfterResponse(list, url, status, headers) ==
  LET requestIndex == findIndex(list, url)
  IN IF requestIndex >= 1 /\ requestIndex <= Len(list)
       THEN [list EXCEPT ![requestIndex].status = Some(status),
                         ![requestIndex].responseHeaders = Some(headers)]
       ELSE list

\* the exchanges whose body read captureResponseData starts for this response
ReadsStarted(list, url, headers) ==
  LET requestIndex == findIndex(list, url)
  IN IF /\ requestIndex >= 1
        /\ shouldCaptureResponseBody(list[requestIndex].resourceType,
                                     ContentTypeOf(headers))
       THEN {requestIndex}
       ELSE {}

\* page.on("response", ...): the response to the k-th request of the page
\* arrives (responses arrive in any order) with the given status, headers
\* and body
OnResponse(r, k, status, headers, body) ==
  /\ page[r] = "open"
  /\ k \in 1..Len(requestEvents[r])
  /\ ~requestEvents[r][k].responded
  /\ requestEvents' = [requestEvents EXCEPT ![r][k].responded = TRUE]
  /\ capturedRequests' = [capturedRequests EXCEPT ![r] =
                            AfterResponse(@, requestEvents[r][k].url, status, headers)]
  /\ textPending' = [textPending EXCEPT ![r] =
                       @ \cup {[i |-> i, body |-> body] :
                                 i \in ReadsStarted(capturedRequests[r],
                                                    requestEvents[r][k].url, headers)}]
  /\ UNCHANGED <<browser, context, pc, call, page, local, returned, response,
                 analysisResults>>
  /\ lastRead' = None

\* response.text() resolves: the handler stores the (truncated) body
TextDone(r, read) ==
  /\ read \in textPending[r]
  /\ textPending' = [textPending EXCEPT ![r] = @ \ {read}]
  /\ capturedRequests' = [capturedRequests EXCEPT ![r][read.i].responseBody =
                            Some(truncateResponseBody(read.body))]
  /\ UNCHANGED <<browser, context, pc, call, page, requestEvents, local, returned,
                 response, analysisResults>>
  /\ lastRead' = None

\* variant of TextFailed: the rejection is not caught and nothing is stored
TextFailed_uncaught(r, read) ==
  /\ read \in textPending[r]
  /\ textPending' = [textPending EXCEPT ![r] = @ \ {read}]
  /\ UNCHANGED <<browser, context, pc, call, page, capturedRequests, requestEvents,
                 local, returned, response, analysisResults>>
  /\ lastRead' = None

\* response.text() rejects: the handler stores the failure marker
TextFailed(r, read) ==
  /\ read \in textPending[r]
  /\ textPending' = [textPending EXCEPT ![r] = @ \ {read}]
  /\ capturedRequests' = [capturedRequests EXCEPT ![r][read.i].responseBody =
                            Some(FailedBody)]
  /\ UNCHANGED <<browser, context, pc, call, page, requestEvents, local, returned,
                 response, analysisResults>>
  /\ lastRead' = None

\* -------------------------------------------------------- read-only tools

\* result.requests: the array the stored report refers to
RequestsOf(result) == capturedRequests[result.requests]

\* variant of getRequestsByDomain: the hostname only has to contain the domain
getRequestsByDomain_contains(filter) ==
  IF ~UrlParses(filter.url)
    THEN McpError("InvalidParams", <<"Invalid parameters">>)
  ELSE IF filter.domain = None \/ filter.domain[1] = <<>>
    THEN McpError("InvalidParams", <<"Domain parameter is required">>)
  ELSE IF ~MapHas(analysisResults, filter.url)
    THEN McpError("InvalidParams", <<"No analysis found for URL: ">> \o filter.url)
  ELSE LET result == analysisResults[filter.url]
           domainRequests ==
             SelectSeq(RequestsOf(result),
                       LAMBDA req : /\ UrlParses(req.url)
                                    /\ Includes(Hostname(req.url), filter.domain[1]))
       IN Ok([url |-> filter.url,
              domain |-> filter.domain[1],
              totalRequests |-> Len(domainRequests),
              requests |-> [i \in 1..Len(domainRequests) |->
                              Projection(domainRequests[i])]])

\* handleGetRequestsByDomain; filter.domain is optional, <<>> is the blank string
getRequestsByDomain(filter) ==
  IF ~UrlParses(filter.url)
    THEN McpError("InvalidParams", <<"Invalid parameters">>)
  ELSE IF filter.domain = None \/ filter.domain[1] = <<>>
    THEN McpError("InvalidParams", <<"Domain parameter is required">>)
  ELSE IF ~MapHas(analysisResults, filter.url)
    THEN McpError("InvalidParams", <<"No analysis found for URL: ">> \o filter.url)
  ELSE LET result == analysisResults[filter.url]
           domainRequests ==
             SelectSeq(RequestsOf(result),
                       LAMBDA req : /\ UrlParses(req.url)
                                    /\ Hostname(req.url) = filter.domain[1])
       IN Ok([url |-> filter.url,
              domain |-> filter.domain[1],
              totalRequests |-> Len(domainRequests),
              requests |-> [i \in 1..Len(domainRequests) |->
                              Projection(domainRequests[i])]])

\* variant of getRequestSummary: the exchanges are not looked at
getRequestSummary_noRequests(url) ==
  IF ~UrlParses(url)
    THEN McpError("InvalidParams", <<"Invalid parameters">>)
  ELSE IF ~MapHas(analysisResults, url)
    THEN McpError("InvalidParams", <<"No analysis found for URL: ">> \o url)
  ELSE Ok(generateAnalysisSummary(analysisResults[url], <<>>))

\* handleGetRequestSummary
getRequestSummary(url) ==
  IF ~UrlParses(url)
    THEN McpError("InvalidParams", <<"Invalid parameters">>)
  ELSE IF ~MapHas(analysisResults, url)
    THEN McpError("InvalidParams", <<"No analysis found for URL: ">> \o url)
  ELSE Ok(generateAnalysisSummary(analysisResults[url], RequestsOf(analysisResults[url])))

\* requestId.trim() === '': the id is made of spaces only (0 is a space)
IsBlank(requestId) == \A i \in 1..Len(requestId) : requestId[i] = 0

\* the full record get_request_details returns for an exchange
Details(request) ==
  [id |-> request.id,
   url |-> request.url,
   method |-> request.method,
   resourceType |-> request.resourceType,
   timestamp |-> request.timestamp,
   status |-> request.status,
   requestHeaders |-> request.headers,
   postData |-> request.postData,
   responseHeaders |-> request.responseHeaders,
   responseBody |-> request.responseBody]

\* variant of getRequestDetails: an unknown id falls back to the first exchange
getRequestDetails_fallback(filter) ==
  IF ~UrlParses(filter.url)
    THEN McpError("InvalidParams", <<"Invalid parameters">>)
  ELSE IF filter.requestId = None \/ IsBlank(filter.requestId[1])
    THEN McpError("InvalidParams", <<"Request ID parameter is required">>)
  ELSE IF ~MapHas(analysisResults, filter.url)
    THEN McpError("InvalidParams", <<"No analysis found for URL: ">> \o filter.url)
  ELSE LET requests == RequestsOf(analysisResults[filter.url])
           request == Find(requests, {i \in 1..Len(requests) :
                                        requests[i].id = filter.requestId[1]})
       IN IF request = None
            THEN IF requests = <<>>
                   THEN McpError("InvalidParams", <<"No request found with ID">>)
                   ELSE Ok(Details(requests[1]))
            ELSE Ok(Details(request[1]))

\* handleGetRequestDetails; filter.requestId is optional
getRequestDetails(filter) ==
  IF ~UrlParses(filter.url)
    THEN McpError("InvalidParams", <<"Invalid parameters">>)
  ELSE IF filter.requestId = None \/ IsBlank(filter.requestId[1])
    THEN McpError("InvalidParams", <<"Request ID parameter is required">>)
  ELSE IF ~MapHas(analysisResults, filter.url)
    THEN McpError("InvalidParams", <<"No analysis found for URL: ">> \o filter.url)
  ELSE LET requests == RequestsOf(analysisResults[filter.url])
           request == Find(requests, {i \in 1..Len(requests) :
                                        requests[i].id = filter.requestId[1]})
       IN IF request = None
            THEN McpError("InvalidParams", <<"No request found with ID">>)
            ELSE Ok(Details(request[1]))

\* the get_request_details tool is called
handleGetRequestDetails(filter) ==
  /\ Quiet
  /\ lastRead' = Some([tool |-> "get_request_details", url |-> filter.url,
                       domain |-> None, requestId |-> filter.requestId,
                       out |-> getRequestDetails(filter)])
  /\ UNCHANGED <<browser, context, pc, call, page, capturedRequests, requestEvents,
                 textPending, local, returned, response, analysisResults>>

\* the get_requests_by_domain tool is called
handleGetRequestsByDomain(filter) ==
  /\ Quiet
  /\ lastRead' = Some([tool |-> "get_requests_by_domain", url |-> filter.url,
                       domain |-> filter.domain, out |-> getRequestsByDomain(filter)])
  /\ UNCHANGED <<browser, context, pc, call, page, capturedRequests, requestEvents,
                 textPending, local, returned, response, analysisResults>>

handleGetRequestSummary_forget(url) ==
  /\ Quiet
  /\ lastRead' = Some([tool |-> "get_request_summary", url |-> url,
                       domain |-> None, out |-> getRequestSummary(url)])
  /\ analysisResults' = [u \in DOMAIN analysisResults \ {url} |-> analysisResults[u]]
  /\ UNCHANGED <<browser, context, pc, call, page, capturedRequests, requestEvents,
                 textPending, local, returned, response>>

\* the get_request_summary tool is called
handleGetRequestSummary(url) ==
  /\ Quiet
  /\ lastRead' = Some([tool |-> "get_request_summary", url |-> url,
                       domain |-> None, out |-> getRequestSummary(url)])
  /\ UNCHANGED <<browser, context, pc, call, page, capturedRequests, requestEvents,
                 textPending, local, returned, response, analysisResults>>

\* ------------------------------------------------------ element extraction

FilterTypes == {"text", "image", "link", "script"}

\* ExtractHtmlElementsSchema.parse(params)
ExtractParamsValid(params) ==
  UrlParses(params.url) /\ params.filterType \in FilterTypes

ExtractErrorToMcp_client(error) == McpError("InvalidParams", error.message)

\* the catch block of handleExtractHtmlElements
ExtractErrorToMcp(error) ==
  IF error.cls = "InvalidUrlError" THEN McpError("InvalidParams", error.message)
  ELSE McpError("InternalError", <<"Unknown extraction error">>)

\* the elements pageAnalyzer.extractImportantElements resolves with
Elements == <<[content |-> <<"Hello world">>, selector |-> <<"#intro">>]>>

InvalidUrlError(message) == [cls |-> "InvalidUrlError", message |-> message]

\* what extractHtmlElements throws for a failure after the page was opened
ExtractionFailed == Error(<<"Failed to extract elements">>)

\* extractHtmlElements returns or throws; called through the tool, the
\* continuation of handleExtractHtmlElements answers
SettleExtract(r, via, out) ==
  /\ pc' = [pc EXCEPT ![r] = "done"]
  /\ returned' = [returned EXCEPT ![r] = Some(out)]
  /\ response' = [response EXCEPT ![r] =
                    IF via = "extractTool"
                      THEN Some(IF out.ok THEN out ELSE ExtractErrorToMcp(out.err))
                      ELSE None]
  /\ UNCHANGED analysisResults

\* The synchronous start of extractHtmlElements: URL validation, then
\* browserManager.initialize().
extractHtmlElementsStart(r, via, url) ==
  /\ call' = [call EXCEPT ![r] = [NoCall EXCEPT !.via = via, !.url = url]]
  /\ UNCHANGED <<browser, context, page, capturedRequests, requestEvents,
                 textPending, local>>
  /\ lastRead' = None
  /\ IF ~UrlParses(url)
       THEN SettleExtract(r, via, Throw(InvalidUrlError(<<"Invalid URL">>)))
       ELSE /\ pc' = [pc EXCEPT ![r] = "extractInit"]
            /\ UNCHANGED <<returned, response, analysisResults>>

\* the extract_html_elements tool is called
handleExtractHtmlElements(r, params) ==
  /\ MayStart(r)
  /\ IF ~ExtractParamsValid(params)
       THEN /\ pc' = [pc EXCEPT ![r] = "done"]
            /\ call' = [call EXCEPT ![r] =
                          [NoCall EXCEPT !.via = "extractTool", !.url = params.url]]
            /\ response' = [response EXCEPT ![r] =
                              Some(McpError("InvalidParams", <<"Invalid parameters">>))]
            /\ lastRead' = None
            /\ UNCHANGED <<browser, context, page, capturedRequests, requestEvents,
                           textPending, local, returned, analysisResults>>
       ELSE extractHtmlElementsStart(r, "extractTool", params.url)

\* WebsiteAnalyzer.extractHtmlElements called directly
extractHtmlElements(r, url, filterType) ==
  /\ MayStart(r)
  /\ extractHtmlElementsStart(r, "extract", url)

\* browserManager.initialize() resolves; context.newPage() is called
ExtractInitDone(r) ==
  /\ pc[r] = "extractInit"
  /\ browser' = TRUE
  /\ context' = TRUE
  /\ pc' = [pc EXCEPT ![r] = "extractNewPage"]
  /\ lastRead' = None
  /\ UNCHANGED <<call, page, capturedRequests, requestEvents, textPending, local,
                 returned, response, analysisResults>>

\* context.newPage() resolves; page.goto() is called
ExtractNewPageDone(r) ==
  /\ pc[r] = "extractNewPage"
  /\ page' = [page EXCEPT ![r] = "open"]
  /\ pc' = [pc EXCEPT ![r] = "extractGoto"]
  /\ lastRead' = None
  /\ UNCHANGED <<browser, context, call, capturedRequests, requestEvents,
                 textPending, local, returned, response, analysisResults>>

\* a failure after the page was opened: it is logged and page.close() is
\* called
ExtractCatch(r, error) ==
  /\ pc' = [pc EXCEPT ![r] = "extractClose"]
  /\ local' = [local EXCEPT ![r].error = Some(error),
                            ![r].closeCalls = local[r].closeCalls + 1]

\* page.goto(url) settles; on success the elements are extracted
ExtractGotoDone(r, err) ==
  /\ pc[r] = "extractGoto"
  /\ lastRead' = None
  /\ UNCHANGED <<browser, context, call, page, capturedRequests, requestEvents,
                 textPending, returned, response, analysisResults>>
  /\ IF err = None
       THEN /\ pc' = [pc EXCEPT ![r] = "extractElements"]
            /\ UNCHANGED local
       ELSE ExtractCatch(r, err[1])

\* pageAnalyzer.extractImportantElements(page, filterType) resolves with the
\* elements, or with none when the evaluation failed; page.close() is called
ExtractElementsDone(r, elements) ==
  /\ pc[r] = "extractElements"
  /\ lastRead' = None
  /\ UNCHANGED <<browser, context, call, page, capturedRequests, requestEvents,
                 textPending, returned, response, analysisResults>>
  /\ pc' = [pc EXCEPT ![r] = "extractClose"]
  /\ local' = [local EXCEPT ![r].result = Some(elements),
                            ![r].closeCalls = local[r].closeCalls + 1]

\* page.close() resolves; extractHtmlElements returns the elements or throws
ExtractCloseDone(r) ==
  /\ pc[r] = "extractClose"
  /\ page' = [page EXCEPT ![r] = "closed"]
  /\ lastRead' = None
  /\ UNCHANGED <<browser, context, call, capturedRequests, requestEvents,
                 textPending, local>>
  /\ SettleExtract(r, call[r].via,
                   IF local[r].error = None THEN Ok(local[r].result[1])
                   ELSE Throw(ExtractionFailed))

\* ----------------------------------------------------- selector derivation

\* A document is a sequence of elements [parent, tag, id, classes]; parent is
\* the index of the parent element, 0 for the root. A selector is a chain of
\* compounds joined by ' > '; a compound is '#id', '.c1.c2', 'tag.c1.c2' or
\* 'tag'; '' is the empty chain. The names used need no escaping.
IdCompound(id) == [id |-> Some(id), tag |-> None, classes |-> <<>>]
ClassCompound(classes) == [id |-> None, tag |-> None, classes |-> classes]
TagCompound(tag, classes) == [id |-> None, tag |-> Some(tag), classes |-> classes]

\* element.matches for one compound
MatchesCompound(doc, n, c) ==
  /\ (c.id # None) => (doc[n].id = c.id)
  /\ (c.tag # None) => (doc[n].tag = c.tag[1])
  /\ \A k \in 1..Len(c.classes) :
       \E j \in 1..Len(doc[n].classes) : doc[n].classes[j] = c.classes[k]

\* element.matches for a chain of child combinators
RECURSIVE MatchesSelector(_, _, _)
MatchesSelector(doc, n, sel) ==
  /\ MatchesCompound(doc, n, sel[Len(sel)])
  /\ IF Len(sel) = 1 THEN TRUE
     ELSE IF doc[n].parent = 0 THEN FALSE
     ELSE MatchesSelector(doc, doc[n].parent, SubSeq(sel, 1, Len(sel) - 1))

\* safeQueryAll: document.querySelectorAll(sel), or null when it throws, as
\* it does for the empty selector
safeQueryAll(doc, sel) ==
  IF sel = <<>> THEN None
  ELSE Some({n \in 1..Len(doc) : MatchesSelector(doc, n, sel)})

isClearlyNotUnique(doc, sel) ==
  LET result == safeQueryAll(doc, sel)
  IN result # None /\ Cardinality(result[1]) > 1

isClearlyUnique(doc, sel, el) ==
  LET result == safeQueryAll(doc, sel)
  IN result # None /\ result[1] = {el}

getClassArray(doc, el) == doc[el].classes

partFor(doc, el) ==
  IF doc[el].id # None THEN IdCompound(doc[el].id[1])
  ELSE TagCompound(doc[el].tag, getClassArray(doc, el))

\* levels of the hierarchy a selector may span, the element included
maxDepth == 4

\* the while loop of getUniqueSelector: the parts from current upwards,
\* outermost first, ending at maxDepth levels or at an element with an id
RECURSIVE Climb(_, _, _)
Climb(doc, current, depth) ==
  IF current = 0 \/ depth >= maxDepth THEN <<>>
  ELSE (IF doc[current].id # None THEN <<>>
        ELSE Climb(doc, doc[current].parent, depth + 1))
       \o <<partFor(doc, current)>>

getUniqueSelector(doc, element) ==
  IF doc[element].id # None THEN <<IdCompound(doc[element].id[1])>>
  ELSE
    LET classes == getClassArray(doc, element)
        baseCandidate == IF Len(classes) > 0 THEN <<ClassCompound(classes)>> ELSE <<>>
        tagCandidate == <<TagCompound(doc[element].tag, <<>>)>>
        parts == Climb(doc, element, 0)
        Suffix(i) == SubSeq(parts, Len(parts) - i + 1, Len(parts))
        unique == {i \in 1..Len(parts) : isClearlyUnique(doc, Suffix(i), element)}
    IN IF baseCandidate # <<>> /\ ~isClearlyNotUnique(doc, baseCandidate)
         THEN baseCandidate
       ELSE IF baseCandidate = <<>> /\ ~isClearlyNotUnique(doc, tagCandidate)
         THEN tagCandidate
       ELSE IF unique # {}
         THEN Suffix(CHOOSE i \in unique : \A j \in unique : i <= j)
       ELSE IF baseCandidate # <<>> THEN baseCandidate
       ELSE tagCandidate

\* document.querySelectorAll of the tags gathered for a filter type
TagsOf(type) ==
  CASE type = "text" -> {"p", "h1", "h2", "h3", "h4", "h5", "h6", "span"}
    [] type = "image" -> {"img"}
    [] type = "link" -> {"a"}
    [] type = "script" -> {"script"}
    [] OTHER -> {}

\* the evaluation inside extractImportantElements: one entry per gathered
\* element, in document order, its selector falling back to the tag
extractImportantElements(doc, type) ==
  LET index == [i \in 1..Len(doc) |-> i]
      elements == SelectSeq(index, LAMBDA i : doc[i].tag \in TagsOf(type))
  IN [k \in 1..Len(elements) |->
        LET el == elements[k]
            selector == getUniqueSelector(doc, el)
        IN [content |-> <<>>,
            selector |-> IF selector = <<>> THEN <<TagCompound(doc[el].tag, <<>>)>>
                         ELSE selector,
            tag |-> doc[el].tag]]

\* extractImportantElements resolves with the text elements of the document
\* the page holds
extractImportantElementsDone(r) ==
  /\ local[r].content # None
  /\ ExtractElementsDone(r, extractImportantElements(local[r].content[1], "text"))

\* ---------------------------------------------------------------- shutdown

\* process.exit() has been called
Exited == \E r \in Runs : pc[r] = "exited"

CloseFailed == Error(<<"Failed to close context">>)

\* the end of MCPServer.cleanup and of the signal handler: after
\* browserManager.cleanup() resolved the stored reports are cleared, after it
\* rejected the error is logged; then process.exit(0)
Exit(r, cleaned) ==
  /\ pc' = [pc EXCEPT ![r] = "exited"]
  /\ analysisResults' = IF cleaned THEN <<>> ELSE analysisResults

\* SIGINT or SIGTERM arrives: shutdown() calls MCPServer.cleanup(), which
\* awaits BrowserManager.cleanup(), which runs up to its first await
Shutdown(r, signal) ==
  /\ ~Exited
  /\ pc[r] = "idle"
  /\ call' = [call EXCEPT ![r] = [NoCall EXCEPT !.via = signal]]
  /\ lastRead' = None
  /\ UNCHANGED <<browser, context, page, capturedRequests, requestEvents,
                 textPending, local, returned, response>>
  /\ IF context
       THEN /\ pc' = [pc EXCEPT ![r] = "contextClose"]
            /\ UNCHANGED analysisResults
       ELSE IF browser
              THEN /\ pc' = [pc EXCEPT ![r] = "browserClose"]
                   /\ UNCHANGED analysisResults
              ELSE Exit(r, TRUE)

\* BrowserManager.cleanup: context.close() settles
ContextCloseDone(r, err) ==
  /\ ~Exited
  /\ pc[r] = "contextClose"
  /\ lastRead' = None
  /\ UNCHANGED <<browser, call, page, capturedRequests, requestEvents,
                 textPending, local, returned, response>>
  /\ IF err # None
       THEN /\ Exit(r, FALSE)
            /\ UNCHANGED context
       ELSE /\ context' = FALSE
            /\ IF browser
                 THEN /\ pc' = [pc EXCEPT ![r] = "browserClose"]
                      /\ UNCHANGED analysisResults
                 ELSE Exit(r, TRUE)

\* BrowserManager.cleanup: browser.close() settles
BrowserCloseDone(r, err) ==
  /\ ~Exited
  /\ pc[r] = "browserClose"
  /\ lastRead' = None
  /\ UNCHANGED <<context, call, page, capturedRequests, requestEvents,
                 textPending, local, returned, response>>
  /\ IF err # None
       THEN /\ Exit(r, FALSE)
            /\ UNCHANGED browser
       ELSE /\ browser' = FALSE
            /\ Exit(r, TRUE)

\* --------------------------------------------------- BrowserManager.cleanup

\* BrowserManager.getContext()
getContext ==
  IF ~context
    THEN Throw(Error(<<"Browser context not initialized. Call initialize() first.">>))
    ELSE Ok(<<"context">>)

\* cleanup() resolves or rejects
CleanupSettled(r, err) ==
  /\ pc' = [pc EXCEPT ![r] = "done"]
  /\ returned' = [returned EXCEPT ![r] = Some(IF err = None THEN Ok(<<>>)
                                               ELSE Throw(err[1]))]

\* BrowserManager.cleanup() called directly: it runs up to its first await,
\* and resolves at once when there is nothing to close
cleanup(r) ==
  /\ pc[r] = "idle"
  /\ call' = [call EXCEPT ![r] = [NoCall EXCEPT !.via = "cleanup"]]
  /\ lastRead' = None
  /\ UNCHANGED <<browser, context, page, capturedRequests, requestEvents,
                 textPending, local, response, analysisResults>>
  /\ IF context
       THEN /\ pc' = [pc EXCEPT ![r] = "cleanupContext"]
            /\ UNCHANGED returned
       ELSE IF browser
              THEN /\ pc' = [pc EXCEPT ![r] = "cleanupBrowser"]
                   /\ UNCHANGED returned
              ELSE CleanupSettled(r, None)

\* variant of CleanupContextClosed: a context that fails to close is dropped
\* and cleanup goes on
CleanupContextClosed_swallow(r, err) ==
  /\ pc[r] = "cleanupContext"
  /\ lastRead' = None
  /\ UNCHANGED <<browser, call, page, capturedRequests, requestEvents,
                 textPending, response, analysisResults>>
  /\ local' = [local EXCEPT ![r].error = err]
  /\ context' = FALSE
  /\ IF browser
       THEN /\ pc' = [pc EXCEPT ![r] = "cleanupBrowser"]
            /\ UNCHANGED returned
       ELSE CleanupSettled(r, None)

\* cleanup: context.close() settles, error being what it rejected with; the
\* field is cleared after it resolved
CleanupContextClosed(r, err) ==
  /\ pc[r] = "cleanupContext"
  /\ lastRead' = None
  /\ UNCHANGED <<browser, call, page, capturedRequests, requestEvents,
                 textPending, response, analysisResults>>
  /\ local' = [local EXCEPT ![r].error = err]
  /\ IF err # None
       THEN /\ CleanupSettled(r, err)
            /\ UNCHANGED context
       ELSE /\ context' = FALSE
            /\ IF browser
                 THEN /\ pc' = [pc EXCEPT ![r] = "cleanupBrowser"]
                      /\ UNCHANGED returned
                 ELSE CleanupSettled(r, None)

\* cleanup: browser.close() settles; the field is cleared after it resolved
CleanupBrowserClosed(r, err) ==
  /\ pc[r] = "cleanupBrowser"
  /\ lastRead' = None
  /\ UNCHANGED <<context, call, page, capturedRequests, requestEvents,
                 textPending, response, analysisResults>>
  /\ local' = [local EXCEPT ![r].error = err]
  /\ CleanupSettled(r, err)
  /\ browser' = (err # None)

\* ---------------------------------------------------- the tool dispatcher

\* the tools of the switch whose handlers answer without awaiting a page
ReadTools == {"get_requests_by_domain", "get_request_details", "get_request_summary"}

\* (args as { url: string }).url, evaluated before handleGetRequestSummary is
\* entered, throws when the call carries no arguments
NoArgumentsError ==
  [cls |-> "TypeError",
   message |-> <<"Cannot read properties of undefined (reading 'url')">>]

\* the switch of the CallToolRequestSchema handler for the read tools: what
\* the case of name returns or throws, the default case included; a handler
\* given undefined is answered by its schema
ToolSwitch(name, args) ==
  IF name = "get_requests_by_domain"
    THEN IF args = None THEN McpError("InvalidParams", <<"Invalid parameters">>)
         ELSE getRequestsByDomain(args[1])
  ELSE IF name = "get_request_details"
    THEN IF args = None THEN McpError("InvalidParams", <<"Invalid parameters">>)
         ELSE getRequestDetails(args[1])
  ELSE IF name = "get_request_summary"
    THEN IF args = None THEN Throw(NoArgumentsError)
         ELSE getRequestSummary(args[1].url)
  ELSE McpError("MethodNotFound", <<"Unknown tool: ", name>>)

\* error instanceof Error
InstanceOfError(error) == error.cls \in {"Error", "TypeError"}

CallToolCatch_rethrow(out) == out

\* the catch block of the CallToolRequestSchema handler
CallToolCatch(out) ==
  IF out.ok THEN out
  ELSE IF out.err.cls = "McpError" THEN out
  ELSE McpError("InternalError",
                <<"Tool execution failed: ">> \o
                  (IF InstanceOfError(out.err) THEN out.err.message
                   ELSE <<"Unknown error">>))

\* a tools/call request for a read tool or for a name the server does not
\* know goes through the CallToolRequestSchema handler
CallTool(name, args) ==
  /\ Quiet
  /\ lastRead' = Some([tool |-> "tools/call", name |-> name, arguments |-> args,
                       handled |-> ToolSwitch(name, args),
                       out |-> CallToolCatch(ToolSwitch(name, args))])
  /\ UNCHANGED <<browser, context, pc, call, page, capturedRequests, requestEvents,
                 textPending, local, returned, response, analysisResults>>

\* ------------------------------------------------------------ environment

\* URLs given to the tools and to analyzeWebsite; the last does not parse
SiteA == <<"https://", "example.com", "/">>
SiteB == <<"https://", "www.", "example.com", "/">>
NotAUrl == <<"example.com">>

\* URLs the pages request
AppJs == <<"https://", "example.com", "/app.js">>
ApiData == <<"https://", "api.", "example.com", "/data">>

HtmlHeaders == [n \in {<<"content-type">>} |-> <<"text/", "html">>]
ShortBody == <<[c |-> "a", n |-> 10]>>
Snapshot == [cookies |-> <<>>, localStorage |-> <<>>, sessionStorage |-> <<>>]
\* the three storage reads succeed on a page that stored nothing
AllRead == [cookies |-> Ok(<<>>), localStorage |-> Ok(<<>>), sessionStorage |-> Ok(<<>>)]

NavigationFailed == Error(<<"Navigation failed">>)
Failures == {None, Some(NavigationFailed)}

ToolOptions ==
  [url : {SiteA, SiteB, NotAUrl}, waitTime : {None},
   includeImages : {None}, quickMode : {None}]

DirectOptions ==
  [url : {NotAUrl}, waitTime : {None}, includeImages : {None}, quickMode : {None}]

ReadFilters ==
  [url : {SiteA},
   domain : {None, Some(<<"example.com">>), Some(<<"api.", "example.com">>)}]

\* the steps of one call of analyzeWebsite; each await may reject with one of
\* errs, navigation with one of navErrs; idles says whether the wait for
\* network idle may time out
Orchestrate(r, errs, navErrs, idles, titles, renderMethods, storages) ==
  \/ \E err \in errs : LaunchDone(r, err)
  \/ \E err \in errs : ContextDone(r, err)
  \/ \E err \in errs : NewPageDone(r, err)
  \/ \E err \in navErrs : GotoDone(r, err)
  \/ \E timedOut \in idles : NetworkIdleDone(r, timedOut)
  \/ \E err \in errs : WaitDone(r, err)
  \/ \E title \in titles, err \in errs : TitleDone(r, title, err)
  \/ \E m \in renderMethods : RenderMethodDone(r, m)
  \/ \E st \in storages : StorageDone(r, st)
  \/ \E err \in errs : CloseDone(r, err)
  \/ \E err \in errs : CatchCloseDone(r, err)

\* the events of the page of one call: at most cap requests of the given
\* urls and types by all pages together, each answered at most once
PageEvents(r, cap, urls, types, statuses, headerSets, bodies) ==
  \/ \E url \in urls, t \in types : OnRequest(r, url, t, cap)
  \/ \E k \in 1..cap, st \in statuses, h \in headerSets, b \in bodies :
       OnResponse(r, k, st, h, b)
  \/ \E read \in textPending[r] : TextDone(r, read)
  \/ \E read \in textPending[r] : TextFailed(r, read)

Next ==
  \/ \E r \in Runs, o \in ToolOptions : handleAnalyzeWebsite(r, o)
  \/ \E r \in Runs, o \in DirectOptions : analyzeWebsite(r, o)
  \/ \E r \in Runs : Orchestrate(r, {None}, Failures, {FALSE}, {<<"Example">>},
                                 {"unknown"}, {AllRead})
  \/ \E r \in Runs : PageEvents(r, MaxReqEvents, {AppJs, ApiData}, {"script"}, {200},
                                {HtmlHeaders}, {ShortBody})
  \/ \E f \in ReadFilters : handleGetRequestsByDomain(f)
  \/ handleGetRequestSummary(SiteA)

Spec == Init /\ [][Next]_vars

\* ------------------------------------------------ one page, many events

\* One direct call of analyzeWebsite whose page emits up to MaxPageRequests
\* requests of several resource types, with and without includeImages,
\* possibly twice for the same URL.
MonitorOptions ==
  [url : {SiteA}, waitTime : {None, Some(0)}, includeImages : {None, Some(TRUE)},
   quickMode : {None}]

NextMonitor ==
  \/ \E o \in MonitorOptions : analyzeWebsite(1, o)
  \/ Orchestrate(1, {None}, Failures, {FALSE}, {<<"Example">>}, {"unknown"}, {AllRead})
  \/ PageEvents(1, MaxPageRequests, {AppJs, ApiData}, {"script", "image", "media"},
                {200}, {HtmlHeaders}, {ShortBody})

SpecMonitor == Init /\ [][NextMonitor]_vars

\* --------------------------------------------------- the dynamic-content wait

\* One call, through the tool or directly, over the wait options; no page
\* events.
WaitTimes ==
  {None, Some(-1), Some(0), Some(1), Some(9999), Some(10000), Some(10001),
   Some(15000)}

WaitOptions ==
  [url : {SiteA, NotAUrl}, waitTime : WaitTimes, includeImages : {None},
   quickMode : {None, Some(FALSE), Some(TRUE)}]

NextWait ==
  \/ \E o \in WaitOptions : handleAnalyzeWebsite(1, o)
  \/ \E o \in WaitOptions : analyzeWebsite(1, o)
  \/ Orchestrate(1, {None}, Failures, {FALSE}, {<<"Example">>}, {"unknown"}, {AllRead})

SpecWait == Init /\ [][NextWait]_vars

\* ------------------------------------------------------------ failing calls

\* What an await of the call may reject with: an Error whose message names a
\* timeout, an Error whose message does not, and a value that is not an Error.
TimeoutOccurred == Error(<<"timeout", " occurred">>)
StringError == [cls |-> "string", message |-> <<"String error">>]
Rejections == {None, Some(NavigationFailed), Some(TimeoutOccurred), Some(StringError)}

\* page.context().cookies() rejects
NoCookies ==
  [AllRead EXCEPT !.cookies = Throw(<<"Failed to get cookies">>)]

FailOptions ==
  [url : {SiteA, NotAUrl}, waitTime : {None}, includeImages : {None},
   quickMode : {None}]

\* Calls through the tool and direct calls, one after the other, in which
\* every await after context.newPage() may reject and the wait for network
\* idle may time out; no page events. The read tools are called in between.
NextFail ==
  \/ \E r \in Runs, o \in FailOptions : handleAnalyzeWebsite(r, o)
  \/ \E r \in Runs, o \in FailOptions : analyzeWebsite(r, o)
  \/ \E r \in Runs : LaunchDone(r, None)
  \/ \E r \in Runs : ContextDone(r, None)
  \/ \E r \in Runs, err \in {None, Some(NavigationFailed)} : NewPageDone(r, err)
  \/ \E r \in Runs, err \in Rejections : GotoDone(r, err)
  \/ \E r \in Runs, timedOut \in BOOLEAN : NetworkIdleDone(r, timedOut)
  \/ \E r \in Runs, err \in {None, Some(TimeoutOccurred)} : WaitDone(r, err)
  \/ \E r \in Runs, err \in {None, Some(NavigationFailed)} :
       TitleDone(r, <<"Example">>, err)
  \/ \E r \in Runs : RenderMethodDone(r, "unknown")
  \/ \E r \in Runs, reads \in {AllRead, NoCookies} : StorageDone(r, reads)
  \/ \E r \in Runs, err \in {None, Some(NavigationFailed)} : CloseDone(r, err)
  \/ \E r \in Runs, err \in {None, Some(NavigationFailed)} : CatchCloseDone(r, err)
  \/ handleGetRequestsByDomain([url |-> SiteA, domain |-> Some(<<"example.com">>)])
  \/ handleGetRequestSummary(SiteA)

SpecFail == Init /\ [][NextFail]_vars

\* ------------------------------------------------------- storage capture

\* How a storage read settles: with nothing stored, with one or two items,
\* or with a rejection. Items are <<name, value>> pairs.
ReadOutcomes ==
  {Ok(<<>>), Ok(<<<<"theme", "dark">>>>),
   Ok(<<<<"theme", "dark">>, <<"session_id", "abc123">>>>),
   Throw(<<"Failed to access storage">>)}

StorageReads ==
  [cookies : ReadOutcomes, localStorage : ReadOutcomes, sessionStorage : ReadOutcomes]

\* One direct call whose storage reads settle in any of the ways above
\* before the report is returned; navigation may fail.
NextStorage ==
  \/ \E o \in DirectOptions : analyzeWebsite(1, [o EXCEPT !.url = SiteA])
  \/ Orchestrate(1, {None}, Failures, {FALSE}, {<<"Example">>}, {"unknown"}, StorageReads)

SpecStorage == Init /\ [][NextStorage]_vars

\* ------------------------------------------------------- the read tools

\* request ids given to get_request_details: none, the empty string, a
\* space, the ids of the first two exchanges of the first call, and an id
\* no exchange has
DetailIds == {None, Some(<<>>), Some(<<0>>), Some(<<1, 1>>), Some(<<1, 2>>), Some(<<9, 9>>)}

DetailFilters == [url : {SiteA, SiteB, NotAUrl}, requestId : DetailIds]

ReadOptions ==
  [url : {SiteA}, waitTime : {None}, includeImages : {None}, quickMode : {None}]

\* One analyze through the tool, whose page requests up to MaxPageRequests
\* URLs; the three read tools are called before and after it.
NextRead ==
  \/ \E o \in ReadOptions : handleAnalyzeWebsite(1, o)
  \/ Orchestrate(1, {None}, Failures, {FALSE}, {<<"Example">>}, {"unknown"}, {AllRead})
  \/ PageEvents(1, MaxPageRequests, {AppJs, ApiData}, {"script"}, {200},
                {HtmlHeaders}, {ShortBody})
  \/ \E f \in DetailFilters : handleGetRequestDetails(f)
  \/ \E f \in ReadFilters : handleGetRequestsByDomain(f)
  \/ \E url \in {SiteA, SiteB} : handleGetRequestSummary(url)

SpecRead == Init /\ [][NextRead]_vars

\* --------------------------------------------------------- tools/call

\* tool names a client sends: the read tools and one the server does not have
ToolNames == ReadTools \cup {"unknown_tool"}

\* the arguments of a tools/call request, which may be left out
ToolArguments ==
  {None} \cup {Some(f) : f \in [url : {SiteA, NotAUrl},
                                 domain : {None, Some(<<"example.com">>)},
                                 requestId : {None, Some(<<1, 1>>)}]}

\* One analyze through the tool; tools/call requests for the other names go
\* through the dispatcher before and after it.
NextDispatch ==
  \/ \E o \in ReadOptions : handleAnalyzeWebsite(1, o)
  \/ Orchestrate(1, {None}, Failures, {FALSE}, {<<"Example">>}, {"unknown"}, {AllRead})
  \/ PageEvents(1, MaxReqEvents, {AppJs}, {"script"}, {200}, {HtmlHeaders}, {ShortBody})
  \/ \E name \in ToolNames, args \in ToolArguments : CallTool(name, args)

SpecDispatch == Init /\ [][NextDispatch]_vars

\* ------------------------------------------------------- body capture

\* content-type values of responses
ContentTypes ==
  {<<"text/", "html">>, <<"image/", "png">>, <<"video/", "mp4">>,
   <<"audio/", "mpeg">>, <<"application/octet-stream">>,
   <<"multipart/", "mixed; type=", "image/", "gif">>}

\* response headers with one of the content types, or without content-type
BodyHeaders == {[n \in {<<"content-type">>} |-> ct] : ct \in ContentTypes} \cup {<<>>}

BodyOptions ==
  [url : {SiteA}, waitTime : {None}, includeImages : {Some(TRUE)}, quickMode : {None}]

\* One analysis that records images too; its page requests up to
\* MaxReqEvents URLs of several resource types, answered with several
\* content types.
NextBody ==
  \/ \E o \in BodyOptions : analyzeWebsite(1, o)
  \/ Orchestrate(1, {None}, Failures, {FALSE}, {<<"Example">>}, {"unknown"}, {AllRead})
  \/ PageEvents(1, MaxReqEvents, {AppJs}, {"script", "xhr", "image", "media", "font"},
                {200}, BodyHeaders, {ShortBody})

SpecBody == Init /\ [][NextBody]_vars

\* ------------------------------------------------------ exchange list

JsonHeaders == [n \in {<<"content-type">>} |-> <<"application/", "json">>]

ExchangeOptions ==
  [url : {SiteA}, waitTime : {None}, includeImages : {None}, quickMode : {None}]

\* One analysis whose page requests up to MaxPageRequests URLs, the same URL
\* more than once, answered in any order with different statuses.
NextExchange ==
  \/ \E o \in ExchangeOptions : analyzeWebsite(1, o)
  \/ Orchestrate(1, {None}, Failures, {FALSE}, {<<"Example">>}, {"unknown"}, {AllRead})
  \/ PageEvents(1, MaxPageRequests, {AppJs, ApiData}, {"script"}, {200, 404},
                {HtmlHeaders, JsonHeaders}, {ShortBody})

SpecExchange == Init /\ [][NextExchange]_vars

\* ------------------------------------------------------ BrowserManager

BrowserOptions ==
  [url : {SiteA}, waitTime : {None}, includeImages : {None}, quickMode : {None}]

\* Calls of analyzeWebsite one after the other, each awaiting
\* browserManager.initialize() first; chromium.launch(), browser.newContext()
\* and the awaits after them may reject.
NextBrowser ==
  \/ \E r \in Runs, o \in BrowserOptions : analyzeWebsite(r, o)
  \/ \E r \in Runs : Orchestrate(r, Failures, Failures, {FALSE}, {<<"Example">>},
                                 {"unknown"}, {AllRead})

SpecBrowser == Init /\ [][NextBrowser]_vars

\* ------------------------------------------------------ manager lifecycle

\* the manager is fresh, or earlier calls left it with a browser, or with a
\* browser and a context
InitCleanup ==
  /\ browser \in BOOLEAN
  /\ context \in BOOLEAN
  /\ context => browser
  /\ pc = [r \in Runs |-> "idle"]
  /\ call = [r \in Runs |-> NoCall]
  /\ page = [r \in Runs |-> "none"]
  /\ capturedRequests = [r \in Runs |-> <<>>]
  /\ requestEvents = [r \in Runs |-> <<>>]
  /\ textPending = [r \in Runs |-> {}]
  /\ local = [r \in Runs |-> NoLocal]
  /\ returned = [r \in Runs |-> None]
  /\ response = [r \in Runs |-> None]
  /\ analysisResults = <<>>
  /\ lastRead = None

\* cleanup() and analyzeWebsite, which awaits initialize(), one call after
\* the other; every await of initialize and cleanup may reject
NextCleanup ==
  \/ \E r \in Runs : MayStart(r) /\ cleanup(r)
  \/ \E r \in Runs, err \in {None, Some(CloseFailed)} : CleanupContextClosed(r, err)
  \/ \E r \in Runs, err \in {None, Some(CloseFailed)} : CleanupBrowserClosed(r, err)
  \/ \E r \in Runs, o \in BrowserOptions : analyzeWebsite(r, o)
  \/ \E r \in Runs : Orchestrate(r, Failures, Failures, {FALSE}, {<<"Example">>},
                                 {"unknown"}, {AllRead})

SpecCleanup == InitCleanup /\ [][NextCleanup]_vars

\* ------------------------------------------------------------ termination

TerminateOptions ==
  [url : {SiteA, NotAUrl}, waitTime : {None}, includeImages : {None},
   quickMode : {None}]

\* the awaits of call r settle: each resolves or rejects, navigation with a
\* failure or a timeout, and the wait for network idle may time out
Settles(r) ==
  Orchestrate(r, Failures, Rejections, BOOLEAN, {<<"Example">>}, {"unknown"}, {AllRead})

NextTerminate ==
  \/ \E r \in Runs, o \in TerminateOptions : analyzeWebsite(r, o)
  \/ \E r \in Runs : Settles(r)

\* Every await of a call in flight settles in the end: Playwright bounds
\* launch, navigation, waits, evaluations and close by timeouts.
SpecTerminate ==
  Init /\ [][NextTerminate]_vars /\ \A r \in Runs : WF_vars(Settles(r))

\* ------------------------------------------------- argument validation

FtpSite == <<"ftp://", "example.com", "/">>

ValidateOptions ==
  [url : {SiteA, FtpSite, NotAUrl},
   waitTime : {None, Some(-1), Some(0), Some(10000), Some(10001), Mistyped},
   includeImages : {None, Some(TRUE), Mistyped},
   quickMode : {None, Some(TRUE), Some(FALSE), Mistyped}]

\* Calls of the analyze tool with valid and invalid arguments, one after the
\* other; navigation may fail.
NextValidate ==
  \/ \E r \in Runs, o \in ValidateOptions : handleAnalyzeWebsite(r, o)
  \/ \E r \in Runs : Orchestrate(r, {None}, Failures, {FALSE}, {<<"Example">>},
                                 {"unknown"}, {AllRead})

SpecValidate == Init /\ [][NextValidate]_vars

\* ------------------------------------------------------ graceful shutdown

Signals == {"SIGINT", "SIGTERM"}

\* Analyze calls through the tool and termination signals, in any order;
\* context.close() and browser.close() may reject. Nothing runs after
\* process.exit().
NextShutdown ==
  \/ \E r \in Runs, o \in BrowserOptions :
       ~Exited /\ MayStartConcurrently(r) /\ AnalyzeTool(r, o)
  \/ \E r \in Runs :
       ~Exited /\ Orchestrate(r, {None}, Failures, {FALSE}, {<<"Example">>},
                              {"unknown"}, {AllRead})
  \/ \E r \in Runs, signal \in Signals : MayStartConcurrently(r) /\ Shutdown(r, signal)
  \/ \E r \in Runs, err \in {None, Some(CloseFailed)} : ContextCloseDone(r, err)
  \/ \E r \in Runs, err \in {None, Some(CloseFailed)} : BrowserCloseDone(r, err)

SpecShutdown == Init /\ [][NextShutdown]_vars

\* ------------------------------------------------- extract_html_elements

ExtractParams == [url : {SiteA, NotAUrl}, filterType : {"text", "video"}]

\* extract_html_elements through the tool and extractHtmlElements called
\* directly, one call after another; navigation may fail
NextExtract ==
  \/ \E r \in Runs, p \in ExtractParams : handleExtractHtmlElements(r, p)
  \/ \E r \in Runs, url \in {SiteA, NotAUrl} : extractHtmlElements(r, url, "text")
  \/ \E r \in Runs : ExtractInitDone(r)
  \/ \E r \in Runs : ExtractNewPageDone(r)
  \/ \E r \in Runs, err \in Failures : ExtractGotoDone(r, err)
  \/ \E r \in Runs, elements \in {Elements, <<>>} : ExtractElementsDone(r, elements)
  \/ \E r \in Runs : ExtractCloseDone(r)

SpecExtract == Init /\ [][NextExtract]_vars

\* ------------------------------------------------------ concurrent calls

ConcurrentOptions ==
  [url : {SiteA}, waitTime : {None}, includeImages : {None}, quickMode : {None}]

\* Analyze calls for the same URL in flight together on the shared browser
\* context; their pages request up to MaxReqEvents URLs between them.
NextConcurrent ==
  \/ \E r \in Runs, o \in ConcurrentOptions :
       MayStartConcurrently(r) /\ AnalyzeTool(r, o)
  \/ \E r \in Runs : Orchestrate(r, {None}, Failures, {FALSE}, {<<"Example">>},
                                 {"unknown"}, {AllRead})
  \/ \E r \in Runs : PageEvents(r, MaxReqEvents, {AppJs}, {"script"}, {200},
                                {HtmlHeaders}, {ShortBody})

SpecConcurrent == Init /\ [][NextConcurrent]_vars

\* the two analyses that run concurrently
PagePair == {1, 2}

PagesOptions ==
  [url : {SiteA, SiteB}, waitTime : {None}, includeImages : {None}, quickMode : {None}]

\* Two analyze calls in flight together; their pages request up to
\* MaxPageRequests URLs between them, in any interleaving.
NextPages ==
  \/ \E r \in PagePair, o \in PagesOptions :
       MayStartConcurrently(r) /\ AnalyzeTool(r, o)
  \/ \E r \in PagePair : Orchestrate(r, {None}, Failures, {FALSE}, {<<"Example">>},
                                     {"unknown"}, {AllRead})
  \/ \E r \in PagePair : PageEvents(r, MaxPageRequests, {AppJs}, {"script"}, {200},
                                    {HtmlHeaders}, {ShortBody})

SpecPages == Init /\ [][NextPages]_vars

\* ------------------------------------------- states in the middle of a call

\* The first call, made directly with the default options, is suspended at
\* pcv with the given array, event history, pending reads and locals; the
\* browser and its context exist and the page is open.
DefaultCall == [via |-> "direct", url |-> SiteA, waitTime |-> 3000,
                includeImages |-> FALSE, quickMode |-> FALSE]

Midway(pcv, list, events, pending, loc) ==
  /\ browser = TRUE
  /\ context = TRUE
  /\ pc = [r \in Runs |-> IF r = 1 THEN pcv ELSE "idle"]
  /\ call = [r \in Runs |-> IF r = 1 THEN DefaultCall ELSE NoCall]
  /\ page = [r \in Runs |-> IF r = 1 THEN "open" ELSE "none"]
  /\ capturedRequests = [r \in Runs |-> IF r = 1 THEN list ELSE <<>>]
  /\ requestEvents = [r \in Runs |-> IF r = 1 THEN events ELSE <<>>]
  /\ textPending = [r \in Runs |-> IF r = 1 THEN pending ELSE {}]
  /\ local = [r \in Runs |-> IF r = 1 THEN loc ELSE NoLocal]
  /\ returned = [r \in Runs |-> None]
  /\ response = [r \in Runs |-> None]
  /\ analysisResults = <<>>
  /\ lastRead = None

\* the exchange at position n after its response arrived
Answered(n, url, status, headers, responseBody) ==
  [NewExchange(1, n, url, "script") EXCEPT !.status = Some(status),
                                           !.responseHeaders = Some(headers),
                                           !.responseBody = responseBody]

\* the request events behind an array in which nothing was filtered
EventsOf(list) ==
  [n \in 1..Len(list) |-> [url |-> list[n].url, resourceType |-> list[n].resourceType,
                           responded |-> list[n].status # None]]

\* ------------------------------------------------------ body truncation

\* lengths around the limit
BodyLengths ==
  {0, 1, 9999, 25000, 40000, 49999, 50000, 50001, 50002, 60000, 100000}

\* a body of a "a"s followed by b "b"s
TwoRuns(a, b) ==
  (IF a = 0 THEN <<>> ELSE <<[c |-> "a", n |-> a]>>)
    \o (IF b = 0 THEN <<>> ELSE <<[c |-> "b", n |-> b]>>)

Bodies == {TwoRuns(a, b) : a \in BodyLengths, b \in BodyLengths}

\* response.text() of the only exchange is in flight, with any of the bodies
InitTruncate ==
  \E body \in Bodies :
    LET list == <<Answered(1, AppJs, 200, HtmlHeaders, None)>>
    IN Midway("networkidle", list, EventsOf(list), {[i |-> 1, body |-> body]}, NoLocal)

NextTruncate == \E read \in textPending[1] : TextDone(1, read)

SpecTruncate == InitTruncate /\ [][NextTruncate]_vars

\* --------------------------------------------------- anti-bot detection

\* exchanges per array under SpecAntiBot
MaxAntiBotList == 2

HcaptchaJs == <<"https://", "hcaptcha.com", "/1/api.js">>
CfChallenge == <<"https://", "cloudflare.com", "/cdn-cgi/challenge-platform">>
CfBeacon == <<"https://", "cloudflare.com", "/beacon.js">>

RetryHeaders ==
  [n \in {<<"content-type">>, <<"retry-after">>} |->
     IF n = <<"content-type">> THEN <<"text/", "html">> ELSE <<"120">>]

\* what an exchange of an assembled array looks like: still unanswered, or
\* answered and read
Unanswered(n, url) == NewExchange(1, n, url, "script")

ExchangeKinds ==
  {[url |-> url, answer |-> a] :
     url \in {AppJs, HcaptchaJs, CfChallenge, CfBeacon},
     a \in {None, Some([status |-> 200, headers |-> HtmlHeaders]),
            Some([status |-> 429, headers |-> HtmlHeaders]),
            Some([status |-> 200, headers |-> RetryHeaders])}}

ExchangeOf(n, kind) ==
  IF kind.answer = None THEN Unanswered(n, kind.url)
  ELSE Answered(n, kind.url, kind.answer[1].status, kind.answer[1].headers,
                Some(ShortBody))

AntiBotLists ==
  UNION {{[n \in 1..k |-> ExchangeOf(n, kinds[n])] : kinds \in [1..k -> ExchangeKinds]} :
           k \in 0..MaxAntiBotList}

AntiBotTitles == {<<"Example">>, <<"Security Check">>}

\* the call is about to assemble its report from any of the arrays and titles
InitAntiBot ==
  \E list \in AntiBotLists, title \in AntiBotTitles :
    Midway("storage", list, EventsOf(list), {},
           [NoLocal EXCEPT !.idleTimedOut = Some(FALSE),
                           !.waited = Some(3000), !.title = Some(title),
                           !.renderMethod = Some("unknown")])

NextAntiBot == StorageDone(1, AllRead)

SpecAntiBot == InitAntiBot /\ [][NextAntiBot]_vars

\* ------------------------------------------------------- page classifier

\* Serialized markup is a sequence of pieces, each a text t of n characters.
\* The pieces ">" and "</body>" are the only ones that hold a '>' or the end
\* of the body, and a markup has at most one body element.
Tok(t, n) == [t |-> t, n |-> n]

\* string.length
StringLength(s) ==
  LET f[i \in 0..Len(s)] == IF i = 0 THEN 0 ELSE f[i - 1] + s[i].n
  IN f[Len(s)]

\* bodyContent: group 1 of /<body[^>]*>([\s\S]*?)<\/body>/i, or '' without a match
bodyContent(initialHTML) ==
  LET n == Len(initialHTML)
      matches == {m \in (1..n) \X (1..n) \X (1..n) :
                    /\ m[1] < m[2] /\ m[2] < m[3]
                    /\ initialHTML[m[1]].t = "<body"
                    /\ initialHTML[m[2]].t = ">"
                    /\ \A x \in (m[1] + 1)..(m[2] - 1) : initialHTML[x].t # ">"
                    /\ initialHTML[m[3]].t = "</body>"
                    /\ \A x \in (m[2] + 1)..(m[3] - 1) : initialHTML[x].t # "</body>"}
  IN IF matches = {} THEN <<>>
     ELSE LET m == CHOOSE m \in matches : \A o \in matches : m[1] <= o[1]
          IN SubSeq(initialHTML, m[2] + 1, m[3] - 1)

\* bodyContent.length below which a page counts as an empty shell
MinimalContentLimit == 500

\* hasMinimalContent: bodyContent && bodyContent.length < 500 && no article/section
hasMinimalContent(body) ==
  /\ StringLength(body) > 0
  /\ StringLength(body) < MinimalContentLimit
  /\ ~Includes(body, <<Tok("<article", 8)>>)
  /\ ~Includes(body, <<Tok("<section", 8)>>)

\* PageAnalyzer.detectRenderMethod on what page.content() answers
detectRenderMethod(content) ==
  IF ~content.ok THEN "unknown"
  ELSE
    LET initialHTML == content.val
        has(t, n) == Includes(initialHTML, <<Tok(t, n)>>)
        hasReactHydration == \/ has("data-reactroot", 14)
                             \/ has("data-reactid", 12)
                             \/ has("data-react-helmet", 17)
        hasVueHydration == \/ has("data-server-rendered", 20)
                           \/ has("v-bind", 6)
                           \/ has("v-on:", 5)
        hasAngularHydration == \/ has("ng-version", 10)
                               \/ has("_nghost", 7)
                               \/ has("_ngcontent", 10)
        hasSSRIndicators == has("data-ssr", 8) \/ has("data-server-rendered", 20)
        hasNextJS == has("__NEXT_DATA__", 13)
        hasNuxtJS == has("window.__NUXT__", 15)
    IN IF hasNextJS \/ hasNuxtJS \/ hasSSRIndicators THEN "server"
       ELSE IF \/ hasReactHydration
               \/ hasVueHydration
               \/ hasAngularHydration
               \/ hasMinimalContent(bodyContent(initialHTML))
            THEN "client"
            ELSE "unknown"

\* detectRenderMethod settles on the markup the page holds
detectRenderMethodDone(r) ==
  /\ pc[r] = "content"
  /\ local[r].content # None
  /\ UNCHANGED <<browser, context, call, page, capturedRequests, requestEvents,
                 textPending, returned, response, analysisResults>>
  /\ lastRead' = None
  /\ pc' = [pc EXCEPT ![r] = "storage"]
  /\ local' = [local EXCEPT
                 ![r].renderMethod = Some(detectRenderMethod(local[r].content[1]))]

\* attributes of the body start tag, and what the body holds
BodyAttributes ==
  {<<>>, <<Tok("data-reactroot", 14)>>, <<Tok("ng-version", 10)>>,
   <<Tok("data-server-rendered", 20)>>}
BodyTexts ==
  {<<>>,
   <<Tok("text", 16)>>,
   <<Tok("text", 499)>>,
   <<Tok("text", 500)>>,
   <<Tok("<article", 8), Tok("text", 100)>>,
   <<Tok("<section", 8), Tok("text", 600)>>,
   <<Tok("text", 600), Tok("v-bind", 6)>>,
   <<Tok("text", 600), Tok("__NEXT_DATA__", 13)>>,
   <<Tok("window.__NUXT__", 15), Tok("text", 5)>>,
   <<Tok("data-ssr", 8), Tok("text", 600), Tok("data-reactid", 12)>>}

Markups ==
  {<<Tok("<html>", 6), Tok("<body", 5)>> \o a \o <<Tok(">", 1)>> \o b
     \o <<Tok("</body>", 7), Tok("</html>", 7)>> :
     a \in BodyAttributes, b \in BodyTexts}
  \cup {<<Tok("<html>", 6), Tok("text", 16), Tok("</html>", 7)>>}

\* page.content() resolves with a markup or rejects
PageContents ==
  {[ok |-> TRUE, val |-> h] : h \in Markups}
  \cup {[ok |-> FALSE, val |-> Error(<<"Failed to get content">>)]}

\* the call has read the title and is about to classify any of the markups
InitRender ==
  \E content \in PageContents :
    Midway("content", <<>>, <<>>, {},
           [NoLocal EXCEPT !.idleTimedOut = Some(FALSE),
                           !.waited = Some(3000), !.title = Some(<<"Example">>),
                           !.content = Some(content)])

NextRender ==
  \/ detectRenderMethodDone(1)
  \/ StorageDone(1, AllRead)
  \/ CloseDone(1, None)

SpecRender == InitRender /\ [][NextRender]_vars

\* ----------------------------------------------------- selector inputs

\* elements of a document under SpecSelector
MaxDocNodes == 3

DocNodes(parents) ==
  [parent : parents, tag : {"div", "p"}, id : {None, Some("main")},
   classes : {<<>>, <<"item">>}]

\* every document of up to MaxDocNodes elements, each after its parent
SmallDocuments ==
  UNION {{doc \in [1..k -> DocNodes(0..(k - 1))] :
            \A i \in 1..k : doc[i].parent < i /\ (doc[i].parent = 0 <=> i = 1)} :
         k \in 1..MaxDocNodes}

El(parent, tag, id, classes) ==
  [parent |-> parent, tag |-> tag, id |-> id, classes |-> classes]

\* two paragraphs that only the sixth level up tells apart
DeepDocument ==
  <<El(0, "div", None, <<>>),
    El(1, "div", None, <<"item">>), El(2, "div", None, <<>>),
    El(3, "div", None, <<>>), El(4, "div", None, <<>>), El(5, "p", None, <<>>),
    El(1, "div", None, <<>>), El(7, "div", None, <<>>),
    El(8, "div", None, <<>>), El(9, "div", None, <<>>), El(10, "p", None, <<>>)>>

\* two paragraphs under two elements of the same id
TwinAnchors ==
  <<El(0, "div", None, <<"item">>),
    El(1, "div", Some("main"), <<>>), El(2, "p", None, <<>>),
    El(1, "div", None, <<>>),
    El(4, "div", Some("main"), <<>>), El(5, "p", None, <<>>)>>

Documents == SmallDocuments \cup {DeepDocument, TwinAnchors}

\* extractHtmlElements has navigated to any of the documents
InitSelector ==
  \E doc \in Documents :
    /\ browser = TRUE
    /\ context = TRUE
    /\ pc = [r \in Runs |-> IF r = 1 THEN "extractElements" ELSE "idle"]
    /\ call = [r \in Runs |-> IF r = 1 THEN [NoCall EXCEPT !.via = "extract", !.url = SiteA]
                              ELSE NoCall]
    /\ page = [r \in Runs |-> IF r = 1 THEN "open" ELSE "none"]
    /\ capturedRequests = [r \in Runs |-> <<>>]
    /\ requestEvents = [r \in Runs |-> <<>>]
    /\ textPending = [r \in Runs |-> {}]
    /\ local = [r \in Runs |-> IF r = 1 THEN [NoLocal EXCEPT !.content = Some(doc)]
                               ELSE NoLocal]
    /\ returned = [r \in Runs |-> None]
    /\ response = [r \in Runs |-> None]
    /\ analysisResults = <<>>
    /\ lastRead = None

NextSelector ==
  \/ extractImportantElementsDone(1)
  \/ ExtractCloseDone(1)

SpecSelector == InitSelector /\ [][NextSelector]_vars

\* ------------------------------------------------------ report assembly

\* exchanges per array under SpecAssemble
MaxAssembleList == 3

\* exchange URLs that do not parse; the second spells a captcha provider
InvalidUrl == <<"invalid-url">>
BareCaptcha == <<"hcaptcha.com", "/1/api.js">>

AssembleUrls == {AppJs, ApiData, InvalidUrl, BareCaptcha}
AssembleTypes == {"script", "xhr"}

AssembleLists ==
  UNION {{[n \in 1..k |-> NewExchange(1, n, urls[n], types[n])] :
            urls \in [1..k -> AssembleUrls], types \in [1..k -> AssembleTypes]} :
           k \in 0..MaxAssembleList}

\* the call is about to assemble its report from any of the arrays and
\* titles; it then closes its page and returns or throws
InitAssemble ==
  \E list \in AssembleLists, title \in AntiBotTitles :
    Midway("storage", list, EventsOf(list), {},
           [NoLocal EXCEPT !.idleTimedOut = Some(FALSE),
                           !.waited = Some(3000), !.title = Some(title),
                           !.renderMethod = Some("unknown")])

NextAssemble ==
  \/ StorageDone(1, AllRead)
  \/ CloseDone(1, None)
  \/ CatchCloseDone(1, None)

SpecAssemble == InitAssemble /\ [][NextAssemble]_vars

\* ================================================================ properties

\* ------------------------------------------------------------------- C1

\* the response to the k-th request event of call r arrives in this step
ResponseArrives(r, k) ==
  /\ k \in 1..Len(requestEvents[r])
  /\ Len(requestEvents'[r]) = Len(requestEvents[r])
  /\ ~requestEvents[r][k].responded
  /\ requestEvents'[r][k].responded

\* the unresolved exchanges of an array that carry the given URL
Unresolved(list, url) ==
  {i \in 1..Len(list) : list[i].url = url /\ list[i].status = None}

\* new is old with status and headers set on exchange i and nothing else
\* changed
ResolvedAt(old, new, i) ==
  /\ Len(new) = Len(old)
  /\ new[i].status # None
  /\ new[i].responseHeaders # None
  /\ [new[i] EXCEPT !.status = None, !.responseHeaders = None] = old[i]
  /\ \A j \in 1..Len(old) : j # i => new[j] = old[j]

Yielded(r) == returned[r] # None /\ returned[r][1].ok

NoDuplicates(seq) ==
  \A i \in 1..Len(seq) : \A j \in 1..Len(seq) : i # j => seq[i] # seq[j]

\* C2: the report analyzeWebsite yields has a requests list whose length
\* equals totalRequests and a uniqueDomains list without duplicates, whatever
\* the interleaving of page events with the steps of the orchestrator.
C2_ReportCounts ==
  \A r \in Runs :
    Yielded(r) =>
      /\ Len(RequestsOf(returned[r][1].val)) = returned[r][1].val.totalRequests
      /\ NoDuplicates(returned[r][1].val.uniqueDomains)

\* ------------------------------------------------------------------- C3

\* C3: once the report of a call is assembled, no step changes its exchange
\* list or a field of an exchange in it, neither before nor after the report
\* is stored in the URL -> report map.
C3_ReportImmutable ==
  [][\A r \in Runs :
       local[r].result # None => capturedRequests'[r] = capturedRequests[r]]_vars

\* ------------------------------------------------------------------- C4

IsImageOrMedia(resourceType) == resourceType \in {"image", "media"}

\* the request events of call r that the claim says are recorded
Recorded(r) ==
  SelectSeq(requestEvents[r],
            LAMBDA e : call[r].includeImages \/ ~IsImageOrMedia(e.resourceType))

\* C4: with includeImages false a request of resource type image or media
\* never adds an exchange, so the exchange list (and the final report's)
\* holds none; with includeImages true such requests are recorded like any
\* other. In both cases the list is, in order, exactly the requests that are
\* to be recorded.
C4_ImageFilter ==
  \A r \in Runs :
    /\ ~call[r].includeImages =>
         \A i \in 1..Len(capturedRequests[r]) :
           ~IsImageOrMedia(capturedRequests[r][i].resourceType)
    /\ Len(capturedRequests[r]) = Len(Recorded(r))
    /\ \A i \in 1..Len(capturedRequests[r]) :
         /\ capturedRequests[r][i].url = Recorded(r)[i].url
         /\ capturedRequests[r][i].resourceType = Recorded(r)[i].resourceType

\* C4 witness: a report was returned for a page that requested an image and
\* a script with includeImages false, and its exchange list holds the script
\* alone.
C4_Witness ==
  /\ Yielded(1)
  /\ ~call[1].includeImages
  /\ Len(requestEvents[1]) = 2
  /\ requestEvents[1][1].resourceType = "image"
  /\ requestEvents[1][2].resourceType = "script"
  /\ Len(RequestsOf(returned[1][1].val)) = 1
  /\ RequestsOf(returned[1][1].val)[1].resourceType = "script"

\* ------------------------------------------------------------------- C5

\* the positions at which a piece of a body of single-character pieces starts
Starts(s) ==
  {1} \cup {1 + StrLen(SubSeq(s, 1, j)) : j \in 1..Len(s)}

\* a and b carry the same characters at positions 1..len; both are constant
\* between two consecutive piece starts, so comparing at the starts suffices
SamePrefix(a, b, len) ==
  \A i \in (Starts(a) \cup Starts(b)) \cap (1..len) : CharAt(a, i) = CharAt(b, i)

\* stored is what the claim says is kept of body
StoredAsClaimed(body, stored) ==
  IF StrLen(body) > 50000
    THEN /\ Len(stored) >= 1
         /\ stored[Len(stored)] = [c |-> TruncationSuffix, n |-> 1]
         /\ StrLen(stored) = 50000 + Len(TruncationSuffix)
         /\ StrLen(SubSeq(stored, 1, Len(stored) - 1)) = 50000
         /\ SamePrefix(SubSeq(stored, 1, Len(stored) - 1), body, 50000)
    ELSE stored = body

\* C5: when a body read completes, a body longer than 50,000 characters is
\* stored as its first 50,000 characters followed by the truncation suffix,
\* and a body of at most 50,000 characters is stored verbatim.
C5_Truncation ==
  [][\A r \in Runs : \A read \in textPending[r] :
       (/\ read \notin textPending'[r]
        /\ capturedRequests'[r][read.i].responseBody # Some(FailedBody))
       => /\ capturedRequests'[r][read.i].responseBody # None
          /\ StoredAsClaimed(read.body,
                             capturedRequests'[r][read.i].responseBody[1])]_vars

\* C5 witness: a stored body that was cut inside its second run: 40,000 "a"s,
\* 10,000 "b"s and the suffix.
C5_Witness ==
  /\ textPending[1] = {}
  /\ Len(capturedRequests[1]) = 1
  /\ capturedRequests[1][1].responseBody =
       Some(<<[c |-> "a", n |-> 40000], [c |-> "b", n |-> 10000],
              [c |-> TruncationSuffix, n |-> 1]>>)

\* ------------------------------------------------------------------- C6

\* waitTime clamped to [0, 10000]
Clamped(waitTime) ==
  IF waitTime < 0 THEN 0 ELSE IF waitTime > 10000 THEN 10000 ELSE waitTime

\* the call is past the point where the dynamic-content wait is resolved
WaitResolved(r) ==
  pc[r] \in {"wait", "title", "content", "storage", "close"} \/ Yielded(r)

\* C6: the dynamic-content wait is 1000 ms with quickMode, whatever
\* waitTime is, and otherwise waitTime clamped to [0, 10000]; for a duration
\* of 0 the page's wait is not called, so the duration passed to it is always
\* in 1..10000.
C6_WaitResolution ==
  \A r \in Runs :
    WaitResolved(r) =>
      LET duration == IF call[r].quickMode THEN 1000 ELSE Clamped(call[r].waitTime)
      IN /\ local[r].waited = (IF duration = 0 THEN None ELSE Some(duration))
         /\ local[r].waited # None => local[r].waited[1] \in 1..10000

\* C6 witness: a call with waitTime 15000 and without quickMode has waited
\* 10000 ms.
C6_Witness ==
  /\ call[1].waitTime = 15000
  /\ ~call[1].quickMode
  /\ local[1].waited = Some(10000)
  /\ pc[1] = "title"

\* ------------------------------------------------------------------- C7

MatchesAny(url, fragments) ==
  \E k \in 1..Len(fragments) : Includes(url, fragments[k])

CaptchaAt(list) == {i \in 1..Len(list) : MatchesAny(list[i].url, captchaDomains)}

RateLimitAt(list) ==
  {i \in 1..Len(list) :
     \/ list[i].status = Some(429)
     \/ /\ list[i].responseHeaders # None
        /\ \E h \in DOMAIN list[i].responseHeaders[1] :
             MatchesAny(toLowerCase(h), rateLimitHeaders)}

AntiBotAt(list) == {i \in 1..Len(list) : MatchesAny(list[i].url, antiBotDomains)}

TitleHasCaptcha(title) == MatchesAny(toLowerCase(title), captchaTitleIndicators)

\* C7: the rules are applied in priority order and the first match wins:
\* captcha fragment in an exchange URL (captcha, domain detail), then status
\* 429 or a rate-limit header (rate-limiting), then anti-bot fragment in an
\* exchange URL (behavioral-analysis), then a captcha phrase in the title
\* (captcha, title detail), else nothing detected.
C7_AntiBotPriority ==
  local[1].result # None =>
    LET list == capturedRequests[1]
        verdict == local[1].result[1].antiBotDetection
    IN IF CaptchaAt(list) # {}
         THEN /\ verdict.detected
              /\ verdict.type = "captcha"
              /\ verdict.details.text = "Captcha detected from domain: "
              /\ \E i \in CaptchaAt(list) :
                   /\ \A j \in CaptchaAt(list) : i <= j
                   /\ verdict.details.arg = Hostname(list[i].url)
       ELSE IF RateLimitAt(list) # {}
         THEN verdict.detected /\ verdict.type = "rate-limiting"
       ELSE IF AntiBotAt(list) # {}
         THEN verdict.detected /\ verdict.type = "behavioral-analysis"
       ELSE IF TitleHasCaptcha(local[1].title[1])
         THEN /\ verdict.detected
              /\ verdict.type = "captcha"
              /\ verdict.details.text = "Captcha indicated in page title"
       ELSE ~verdict.detected

\* C7 witness: a report assembled from a captcha-provider request, a 429
\* response and a captcha title says captcha with the domain detail.
C7_Witness ==
  /\ local[1].result # None
  /\ CaptchaAt(capturedRequests[1]) # {}
  /\ RateLimitAt(capturedRequests[1]) # {}
  /\ TitleHasCaptcha(local[1].title[1])
  /\ local[1].result[1].antiBotDetection.type = "captcha"
  /\ local[1].result[1].antiBotDetection.details.arg = <<"hcaptcha.com">>

\* ------------------------------------------------------------------- C8

\* the analyze tool calls for url that were answered with a summary
Succeeded(url) ==
  {r \in Runs : /\ call[r].via = "tool"
                /\ call[r].url = url
                /\ response[r] # None
                /\ response[r][1].ok}

\* the latest of them (calls are numbered in the order they are made)
LatestRun(url) == CHOOSE r \in Succeeded(url) : \A q \in Succeeded(url) : q <= r

IsInvalidParams(out) ==
  /\ ~out.ok
  /\ out.err.cls = "McpError"
  /\ out.err.code = "InvalidParams"

\* got is, in order, the projection of the exchanges of stored at hits
ExactlyInOrder(got, stored, hits) ==
  /\ Len(got) = Cardinality(hits)
  /\ \E f \in [1..Len(got) -> hits] :
       /\ \A a \in 1..Len(got) : \A b \in 1..Len(got) : a < b => f[a] < f[b]
       /\ \A a \in 1..Len(got) :
            /\ got[a].id = stored[f[a]].id
            /\ got[a].url = stored[f[a]].url
            /\ got[a].method = stored[f[a]].method
            /\ got[a].resourceType = stored[f[a]].resourceType
            /\ got[a].status = stored[f[a]].status
            /\ got[a].timestamp = stored[f[a]].timestamp

C9_SummaryRoundTrip ==
  (/\ lastRead # None
   /\ lastRead[1].tool = "get_request_summary"
   /\ Succeeded(lastRead[1].url) # {}) =>
    /\ lastRead[1].out.ok
    /\ LET again == lastRead[1].out.val
           first == response[LatestRun(lastRead[1].url)][1].val
       IN /\ again.websiteInfo = first.websiteInfo
          /\ again.requestSummary = first.requestSummary
          /\ again.domains = first.domains
          /\ again.antiBotDetection = first.antiBotDetection

\* C9 witness: a summary is read back for a URL analysed twice; it lists a
\* domain with one request.
C9_Witness ==
  /\ lastRead # None
  /\ lastRead[1].tool = "get_request_summary"
  /\ lastRead[1].out.ok
  /\ Cardinality(Succeeded(lastRead[1].url)) = 2
  /\ Len(lastRead[1].out.val.domains) = 1
  /\ lastRead[1].out.val.domains[1].requestCount = 1

\* ------------------------------------------------------------------ C10

InvalidUrlMessage == <<"Invalid URL provided. Please include http:// or https://">>

\* analyzeWebsite is called directly as call r in this step, with a URL that
\* does not parse
CalledWithBadUrl(r) ==
  /\ pc[r] = "idle"
  /\ pc'[r] # "idle"
  /\ call'[r].via = "direct"
  /\ ~UrlParses(call'[r].url)

ExitedWithPage(r) == pc[r] = "done" /\ page[r] # "none"

EndsInFailure(r) ==
  /\ pc[r] # "done"
  /\ pc'[r] = "done"
  /\ IF call'[r].via = "tool" THEN ~response'[r][1].ok ELSE ~returned'[r][1].ok

\* a summary read for a URL analysed successfully before is the summary of
\* the report of the latest successful analyze of that URL
ReadsLatestSuccess ==
  (/\ lastRead # None
   /\ lastRead[1].tool = "get_request_summary"
   /\ Succeeded(lastRead[1].url) # {}) =>
    /\ lastRead[1].out.ok
    /\ lastRead[1].out.val.websiteInfo.analysisTimestamp = LatestRun(lastRead[1].url)

\* C12: a step in which an analyze fails (in validation, in navigation or in
\* a later step) leaves the URL -> report map as it was: no entry is added,
\* replaced or removed; and the report a read tool answers from afterwards is
\* still the one stored by the latest successful analyze of the URL.
C12_FailureKeepsCache ==
  [][/\ \A r \in Runs : EndsInFailure(r) => analysisResults' = analysisResults
     /\ ReadsLatestSuccess']_vars

\* the first analyze of the URL stored a report, the second failed after its
\* page was opened, and the summary read afterwards is that of the first
C12_Witness ==
  /\ Succeeded(SiteA) = {1}
  /\ call[2].via = "tool" /\ call[2].url = SiteA
  /\ pc[2] = "done" /\ ~response[2][1].ok /\ page[2] = "closed"
  /\ lastRead # None
  /\ lastRead[1].tool = "get_request_summary"
  /\ lastRead[1].out.ok
  /\ lastRead[1].out.val.websiteInfo.analysisTimestamp = 1
  /\ analysisResults[SiteA].analysisTimestamp = 1

\* ------------------------------------------------------------------- C13

\* the message says "timeout"
NamesTimeout(message) == \E i \in 1..Len(message) : message[i] = "timeout"

TimedOutMessage(url) ==
  <<"Website analysis timed out for ">> \o url
    \o <<". The site may be slow to load or have blocking resources.">>

\* call r failed inside the try block and its page was closed
FailedAfterOpen(r) ==
  pc[r] = "done" /\ local[r].error # None /\ page[r] = "closed"

ToolFailed(r) ==
  /\ call[r].via = "tool"
  /\ pc[r] = "done"
  /\ ~response[r][1].ok

\* the call failed on a timeout: the Error its try block caught names one
TimedOut(r) ==
  /\ FailedAfterOpen(r)
  /\ local[r].error[1].cls = "Error"
  /\ NamesTimeout(local[r].error[1].message)

\* C14: the analyze tool answers a call with an invalid URL with
\* InvalidParams, a call that timed out with RequestTimeout, and a call that
\* failed in any other way with InternalError; a timeout is thereby told
\* apart from an internal error.
C14_ErrorMapping ==
  \A r \in Runs :
    ToolFailed(r) =>
      response[r][1].err.code =
        IF ~UrlParses(call[r].url) THEN "InvalidParams"
        ELSE IF TimedOut(r) THEN "RequestTimeout"
        ELSE "InternalError"

\* ------------------------------------------------------------------- C15

\* the wait for network idle of call r timed out
IdleTimedOut(r) == local[r].idleTimedOut = Some(TRUE)

\* C15: a call whose wait for network idle timed out goes on to the
\* dynamic-content wait, and unless a later step fails it reads the title,
\* classifies the rendering, captures the storage and returns a report.
C15_IdleTimeoutNotFatal ==
  \A r \in Runs :
    IdleTimedOut(r) =>
      /\ local[r].waited = Some(actualWaitTime(call[r].waitTime, call[r].quickMode))
      /\ pc[r] \in {"wait", "title", "content", "storage", "close", "catchClose", "done"}
      /\ (pc[r] = "done" /\ local[r].error = None) =>
           /\ returned[r][1].ok
           /\ Some(returned[r][1].val.title) = local[r].title
           /\ Some(returned[r][1].val.renderMethod) = local[r].renderMethod
           /\ local[r].storageReads # None

\* the wait for network idle timed out and the call returned a report
C15_Witness ==
  /\ IdleTimedOut(1)
  /\ pc[1] = "done"
  /\ returned[1][1].ok
  /\ returned[1][1].val.title = <<"Example">>

\* ------------------------------------------------------------------- C16

AllThreeRead(reads) ==
  reads.cookies.ok /\ reads.localStorage.ok /\ reads.sessionStorage.ok

\* C16: once the three storage reads of a call have settled, the captured
\* storage is absent if any of them rejected and is otherwise the record of
\* exactly the three values read; the capture throws nothing (the call goes
\* on to close its page and returns a report that carries the result).
C16_StorageAllOrNothing ==
  \A r \in Runs :
    local[r].storageReads # None =>
      LET reads == local[r].storageReads[1]
          snapshot == local[r].browserStorage
      IN /\ ~AllThreeRead(reads) => snapshot = None
         /\ AllThreeRead(reads) =>
              /\ snapshot # None
              /\ DOMAIN snapshot[1] = {"cookies", "localStorage", "sessionStorage"}
              /\ snapshot[1].cookies = reads.cookies.val
              /\ snapshot[1].localStorage = reads.localStorage.val
              /\ snapshot[1].sessionStorage = reads.sessionStorage.val
         /\ local[r].error = None
         /\ pc[r] = "done" =>
              /\ returned[r][1].ok
              /\ returned[r][1].val.browserStorage = snapshot

\* cookies and localStorage were read and the read of sessionStorage
\* rejected: the report returned has no browserStorage
C16_Witness ==
  /\ pc[1] = "done"
  /\ local[1].storageReads # None
  /\ local[1].storageReads[1].cookies = Ok(<<<<"theme", "dark">>>>)
  /\ local[1].storageReads[1].localStorage.ok
  /\ ~local[1].storageReads[1].sessionStorage.ok
  /\ returned[1][1].ok
  /\ returned[1][1].val.browserStorage = None

\* ------------------------------------------------------------------- C17

\* the body read of call r settles in this step without its body being
\* stored: the read failed
ReadFails(r, read) ==
  /\ read \in textPending[r]
  /\ read \notin textPending'[r]
  /\ capturedRequests'[r][read.i].responseBody # Some(truncateResponseBody(read.body))

\* C17: when the read of a response body fails, the exchange the response
\* was matched to keeps the status and the response headers it was given and
\* its responseBody becomes "[Failed to capture response body]"; nothing else
\* in the array changes, and the call of analyzeWebsite is where it was: the
\* failure does not reach it.
C17_BodyReadFailure ==
  [][\A r \in Runs : \A read \in textPending[r] :
       ReadFails(r, read) =>
         /\ capturedRequests[r][read.i].status # None
         /\ capturedRequests[r][read.i].responseHeaders # None
         /\ capturedRequests'[r] =
              [capturedRequests[r] EXCEPT ![read.i].responseBody = Some(FailedBody)]
         /\ pc' = pc
         /\ local' = local
         /\ returned' = returned
         /\ page' = page]_vars

\* the call returned a report although the body of an answered exchange
\* could not be read
C17_Witness ==
  /\ pc[1] = "done"
  /\ returned[1][1].ok
  /\ \E i \in 1..Len(capturedRequests[1]) :
       /\ capturedRequests[1][i].responseBody = Some(FailedBody)
       /\ capturedRequests[1][i].status = Some(200)
       /\ capturedRequests[1][i].responseHeaders = Some(HtmlHeaders)

\* ------------------------------------------------------------------- C18

\* what an exchange contributes to uniqueDomains
Contribution(req) ==
  IF UrlParses(req.url) THEN Hostname(req.url) ELSE <<"invalid-url">>

\* position of the first exchange of list that contributes domain
FirstSeen(list, domain) ==
  CHOOSE i \in 1..Len(list) :
    /\ Contribution(list[i]) = domain
    /\ \A j \in 1..(i - 1) : Contribution(list[j]) # domain

\* C18: the uniqueDomains of an assembled report lists, without repetition
\* and in the order in which they are first seen in the array, the hostnames
\* of the exchange URLs, an exchange whose URL does not parse counting as
\* "invalid-url".
C18_UniqueDomains ==
  local[1].result # None =>
    LET list == capturedRequests[1]
        domains == local[1].result[1].uniqueDomains
    IN /\ NoDuplicates(domains)
       /\ {domains[a] : a \in 1..Len(domains)} =
            {Contribution(list[i]) : i \in 1..Len(list)}
       /\ \A a \in 1..Len(domains) : \A b \in 1..Len(domains) :
            a < b => FirstSeen(list, domains[a]) < FirstSeen(list, domains[b])

\* the array holds example.com, a URL that does not parse, and example.com
\* again
C18_Witness ==
  /\ local[1].result # None
  /\ Len(capturedRequests[1]) = 3
  /\ capturedRequests[1][1].url = AppJs
  /\ capturedRequests[1][2].url = InvalidUrl
  /\ capturedRequests[1][3].url = AppJs
  /\ local[1].result[1].uniqueDomains = <<(<<"example.com">>), (<<"invalid-url">>)>>

\* ------------------------------------------------------------------- C19

\* C19: whatever the title and the array, once the storage capture has
\* settled a report has been assembled and nothing was thrown.
C19_AssemblyNeverThrows ==
  local[1].storageReads # None =>
    /\ local[1].result # None
    /\ local[1].error = None

\* ------------------------------------------------------------------- C20

\* number of exchanges of the list with the given resource type
OfType(list, type) == Len(SelectSeq(list, LAMBDA req : req.resourceType = type))

\* sum of the values of a map with finite domain
SumOf(map) ==
  LET RECURSIVE Sum(_)
      Sum(keys) ==
        IF keys = {} THEN 0
        ELSE LET k == CHOOSE x \in keys : TRUE
             IN map[k] + Sum(keys \ {k})
  IN Sum(DOMAIN map)

\* C20: the requestsByType of an assembled report has an entry for a
\* resource type exactly if an exchange has that type, the entry being the
\* number of such exchanges (never zero), and its entries sum to
\* totalRequests.
C20_RequestsByType ==
  local[1].result # None =>
    LET list == capturedRequests[1]
        report == local[1].result[1]
    IN /\ DOMAIN report.requestsByType =
            {list[i].resourceType : i \in 1..Len(list)}
       /\ \A t \in DOMAIN report.requestsByType :
            /\ report.requestsByType[t] = OfType(list, t)
            /\ report.requestsByType[t] > 0
       /\ SumOf(report.requestsByType) = report.totalRequests

\* two scripts and one xhr
C20_Witness ==
  /\ local[1].result # None
  /\ local[1].result[1].totalRequests = 3
  /\ DOMAIN local[1].result[1].requestsByType = {"script", "xhr"}
  /\ local[1].result[1].requestsByType["script"] = 2
  /\ local[1].result[1].requestsByType["xhr"] = 1

\* ------------------------------------------------------------------- C21

\* the analyze tool call r completes in this step with a report
Completes(r) ==
  /\ pc[r] # "done"
  /\ pc'[r] = "done"
  /\ call[r].via = "tool"
  /\ returned'[r] # None
  /\ returned'[r][1].ok

\* C21: whenever an analyze of a URL completes with a report, the map holds
\* for that URL exactly the report this analyze produced, whatever it held
\* before, and the entries of other URLs are as they were; in every other
\* step the map does not change. With analyses of the same URL in flight
\* together, the map therefore holds the whole report of the one that
\* completed last. (The map is keyed by URL: one entry per URL.)
C21_LastWriteWins ==
  [][/\ \A r \in Runs :
          Completes(r) =>
            /\ DOMAIN analysisResults' = DOMAIN analysisResults \cup {call[r].url}
            /\ analysisResults'[call[r].url] = returned'[r][1].val
            /\ \A u \in DOMAIN analysisResults \ {call[r].url} :
                 analysisResults'[u] = analysisResults[u]
     /\ (\A r \in Runs : ~Completes(r)) => analysisResults' = analysisResults]_vars

\* two analyses of the same URL were in flight together and both returned a
\* report; the one called first completed last, and the map holds its report
C21_Witness ==
  /\ call[1].url = call[2].url
  /\ pc[1] = "done" /\ returned[1][1].ok
  /\ pc[2] = "done" /\ returned[2][1].ok
  /\ returned[1][1].val # returned[2][1].val
  /\ analysisResults[call[1].url] = returned[1][1].val

\* ------------------------------------------------------------------- C22

\* the exchanges of the report stored for url (none when nothing is stored)
StoredExchanges(url) ==
  IF Succeeded(url) = {} THEN <<>> ELSE capturedRequests[LatestRun(url)]

\* C22: get_request_details answers InvalidParams when the request id is
\* missing or blank, when no report is stored for the URL, and when the
\* stored report has no exchange with that id; otherwise it returns the
\* record of the stored exchange with that id: its request headers, post
\* data, status, response headers and response body, with its id, URL,
\* method, resource type and timestamp.
C22_RequestDetails ==
  (lastRead # None /\ lastRead[1].tool = "get_request_details") =>
    LET read == lastRead[1]
        stored == StoredExchanges(read.url)
        hits == {i \in 1..Len(stored) : Some(stored[i].id) = read.requestId}
    IN IF \/ read.requestId = None
          \/ \A i \in 1..Len(read.requestId[1]) : read.requestId[1][i] = 0
          \/ Succeeded(read.url) = {}
          \/ hits = {}
         THEN IsInvalidParams(read.out)
         ELSE /\ read.out.ok
              /\ \E i \in hits :
                   /\ read.out.val.id = stored[i].id
                   /\ read.out.val.url = stored[i].url
                   /\ read.out.val.method = stored[i].method
                   /\ read.out.val.resourceType = stored[i].resourceType
                   /\ read.out.val.timestamp = stored[i].timestamp
                   /\ read.out.val.requestHeaders = stored[i].headers
                   /\ read.out.val.postData = stored[i].postData
                   /\ read.out.val.status = stored[i].status
                   /\ read.out.val.responseHeaders = stored[i].responseHeaders
                   /\ read.out.val.responseBody = stored[i].responseBody

\* the details of the second of two stored exchanges are returned, with the
\* body that was read for it
C22_Witness ==
  /\ lastRead # None
  /\ lastRead[1].tool = "get_request_details"
  /\ lastRead[1].requestId = Some(<<1, 2>>)
  /\ lastRead[1].out.ok
  /\ lastRead[1].out.val.url = ApiData
  /\ lastRead[1].out.val.status = Some(200)
  /\ lastRead[1].out.val.responseBody = Some(ShortBody)
  /\ Len(StoredExchanges(SiteA)) = 2

\* ------------------------------------------------------------------- C23

\* the tools/call request answered in the latest step
Dispatched == lastRead # None /\ lastRead[1].tool = "tools/call"

\* C23: every failure that leaves the tool-call dispatcher is an McpError:
\* an McpError thrown by a handler leaves it as it was thrown, a tool name
\* the server does not know is answered MethodNotFound, and any other
\* thrown value leaves it as an McpError with code InternalError; the
\* answers of the analyze tool that are failures are McpErrors too.
C23_OnlyMcpErrors ==
  /\ Dispatched =>
       LET c == lastRead[1]
       IN /\ ~c.out.ok => c.out.err.cls = "McpError"
          /\ c.handled.ok => c.out = c.handled
          /\ (~c.handled.ok /\ c.handled.err.cls = "McpError") => c.out = c.handled
          /\ (~c.handled.ok /\ c.handled.err.cls # "McpError") =>
               (~c.out.ok /\ c.out.err.code = "InternalError")
          /\ c.name \notin ReadTools =>
               (~c.out.ok /\ c.out.err.code = "MethodNotFound")
  /\ \A r \in Runs :
       (response[r] # None /\ ~response[r][1].ok) =>
         response[r][1].err.cls = "McpError"

\* get_request_summary called without arguments after an analysis: the
\* TypeError of the argument access left the dispatcher as InternalError
C23_Witness ==
  /\ Dispatched
  /\ lastRead[1].name = "get_request_summary"
  /\ lastRead[1].arguments = None
  /\ lastRead[1].handled = Throw(NoArgumentsError)
  /\ lastRead[1].out =
       McpError("InternalError",
                <<"Tool execution failed: ",
                  "Cannot read properties of undefined (reading 'url')">>)
  /\ analysisResults # <<>>

\* ------------------------------------------------------------------- C24

\* C24: get_requests_by_domain, get_request_details and get_request_summary
\* never change state: in a step in which one of them returns or fails, the
\* URL -> report map holds the same URLs with the same reports, and every
\* stored exchange, like everything else the server holds, is as it was.
C24_ReadsChangeNothing ==
  [][lastRead' # None =>
       /\ DOMAIN analysisResults' = DOMAIN analysisResults
       /\ \A url \in DOMAIN analysisResults : analysisResults'[url] = analysisResults[url]
       /\ capturedRequests' = capturedRequests
       /\ UNCHANGED <<browser, context, pc, call, page, requestEvents, textPending,
                      local, returned, response>>]_vars

\* a read tool has failed for a URL without a report while the report of
\* another URL, with two exchanges, is stored
C24_Witness ==
  /\ lastRead # None
  /\ lastRead[1].tool \in {"get_request_details", "get_request_summary"}
  /\ lastRead[1].url = SiteB
  /\ ~lastRead[1].out.ok
  /\ DOMAIN analysisResults = {SiteA}
  /\ Len(StoredExchanges(SiteA)) = 2

\* ------------------------------------------------------------------- C25

\* call r is an element extraction
IsExtraction(r) == call[r].via \in {"extract", "extractTool"}

\* navigation of the extraction r failed
NavigationFailedIn(r) == local[r].error = Some(NavigationFailed)

ListenerRan(r) ==
  requestEvents'[r] # requestEvents[r] \/ textPending'[r] # textPending[r]

\* new is old with its exchanges in place, patched or not, and at most one
\* exchange appended
AppendsOrPatches(old, new) ==
  /\ Len(new) \in {Len(old), Len(old) + 1}
  /\ \A i \in 1..Len(old) : new[i].id = old[i].id /\ new[i].url = old[i].url

\* every exchange of the list of call r was requested by the page of call r
OwnExchangesOnly(r) ==
  \A i \in 1..Len(capturedRequests[r]) :
    LET req == capturedRequests[r][i]
    IN /\ req.id[1] = r
       /\ req.id[2] \in 1..Len(requestEvents[r])
       /\ req.url = requestEvents[r][req.id[2]].url

\* C26: with analyses in flight together on the shared context, a request
\* or response event of one page appends to or patches the exchange list of
\* its own analysis and leaves the lists of the others as they were, and
\* the report of each analysis holds the list of its own call, with only
\* exchanges its own page requested.
C26_Independent ==
  /\ [][\A r \in Runs :
          ListenerRan(r) =>
            /\ \A q \in Runs \ {r} : capturedRequests'[q] = capturedRequests[q]
            /\ AppendsOrPatches(capturedRequests[r], capturedRequests'[r])]_vars
  /\ [](\A r \in Runs :
          (returned[r] # None /\ returned[r][1].ok) =>
            /\ returned[r][1].val.requests = r
            /\ OwnExchangesOnly(r))

\* the first analysis has returned its report with the one exchange of its
\* page while the page of the second, opened before that, has an exchange
\* of its own
C26_Witness ==
  /\ returned[1] # None /\ returned[1][1].ok
  /\ Len(capturedRequests[1]) = 1
  /\ capturedRequests[1][1].id = <<1, 1>>
  /\ page[2] = "open"
  /\ Len(capturedRequests[2]) = 1
  /\ capturedRequests[2][1].id = <<2, 1>>
  /\ call[1].url # call[2].url

\* ------------------------------------------------------------------- C27

\* BrowserManager.isInitialized()
isInitialized == browser /\ context

\* call r calls chromium.launch() / browser.newContext() in this step
Launches(r) == pc[r] # "launch" /\ pc'[r] = "launch"
CreatesContext(r) == pc[r] # "newContext" /\ pc'[r] = "newContext"

\* the initialize() of call r rejects in this step
InitializeFails(r) == pc[r] \in {"launch", "newContext"} /\ pc'[r] = "done"

\* C27: initialize is idempotent: once an initialize has succeeded, a
\* further initialize launches no browser and creates no context and the
\* manager stays initialized; an initialize that finds a browser without a
\* context creates a context and launches nothing; after a launch or a
\* context creation that failed, isInitialized() is false.
C27_InitializeIdempotent ==
  [][\A r \in Runs :
       /\ isInitialized => (~Launches(r) /\ ~CreatesContext(r) /\ isInitialized')
       /\ (browser /\ ~context /\ pc[r] = "idle" /\ pc'[r] \notin {"idle", "done"}) =>
            (CreatesContext(r) /\ browser' /\ ~Launches(r))
       /\ browser => ~Launches(r)
       /\ InitializeFails(r) => ~isInitialized']_vars

\* the context creation of the first call failed and left a browser without
\* a context; the second call is creating a context
C27_Witness ==
  /\ pc[1] = "done"
  /\ returned[1] # None /\ ~returned[1][1].ok
  /\ browser /\ ~context
  /\ pc[2] = "newContext"

\* ------------------------------------------------------------------- C28

\* C28: when the shutdown started by SIGINT or SIGTERM has completed, that
\* is, when the process exits, neither the shared context nor the browser
\* is left open.
C28_ShutdownClosesAll ==
  Exited => (~browser /\ ~context)

\* ------------------------------------------------------------------- C29

\* the request and response listeners are attached to the page of call r:
\* setupRequestMonitoring runs in the turn in which the page is opened
ListenersAttached(r) == page[r] # "none"

\* page.goto() of call r has been called and has not settled
Navigating(r) == pc[r] = "goto"

\* the page of call r emits a request event in this step
RequestEmitted(r) == Len(requestEvents'[r]) = Len(requestEvents[r]) + 1

BinaryFragments == {"image/", "video/", "audio/", "application/octet-stream"}

\* the body of a response with these headers to an exchange of this
\* resource type is to be read
BodyWanted(resourceType, headers) ==
  /\ resourceType \notin {"image", "media", "font"}
  /\ LET contentType == ContentTypeOf(headers)
     IN \A i \in 1..Len(contentType) : contentType[i] \notin BinaryFragments

\* the read of the body of exchange i of call r is in flight
ReadPending(r, i) == \E read \in textPending[r] : read.i = i

\* C30: for an exchange that got its response, status and headers are set,
\* and its body is read and stored if and only if its resource type is none
\* of image, media, font and the content-type of the response contains none
\* of image/, video/, audio/, application/octet-stream: then the read is in
\* flight or has stored a body, otherwise no read is made and responseBody
\* stays absent; a read that resolves stores the (truncated) body.
C30_BodyCapture ==
  /\ [](\A r \in Runs : \A i \in 1..Len(capturedRequests[r]) :
          LET req == capturedRequests[r][i]
          IN IF req.status = None
               THEN req.responseHeaders = None /\ req.responseBody = None /\ ~ReadPending(r, i)
               ELSE /\ req.responseHeaders # None
                    /\ IF BodyWanted(req.resourceType, req.responseHeaders[1])
                         THEN (req.responseBody # None) # ReadPending(r, i)
                         ELSE req.responseBody = None /\ ~ReadPending(r, i))
  /\ [][\A r \in Runs : \A read \in textPending[r] \ textPending'[r] :
          capturedRequests'[r][read.i].responseBody \in
            {Some(truncateResponseBody(read.body)), Some(FailedBody)}]_vars

\* a script answered with an image content type has status and headers but
\* no body, and no read of it is in flight
C30_Witness ==
  /\ Len(capturedRequests[1]) = 1
  /\ capturedRequests[1][1].resourceType = "script"
  /\ capturedRequests[1][1].status = Some(200)
  /\ capturedRequests[1][1].responseHeaders =
       Some([n \in {<<"content-type">>} |-> <<"multipart/", "mixed; type=", "image/", "gif">>])
  /\ capturedRequests[1][1].responseBody = None
  /\ textPending[1] = {}
  /\ pc[1] = "done"

\* ------------------------------------------------------------------- C31

\* the request fields of two exchanges are the same
SameRequest(a, b) ==
  /\ a.id = b.id
  /\ a.url = b.url
  /\ a.method = b.method
  /\ a.headers = b.headers
  /\ a.postData = b.postData
  /\ a.timestamp = b.timestamp
  /\ a.resourceType = b.resourceType

ServerMarkers ==
  {Tok("__NEXT_DATA__", 13), Tok("window.__NUXT__", 15), Tok("data-ssr", 8),
   Tok("data-server-rendered", 20)}
HydrationFingerprints ==
  {Tok("data-reactroot", 14), Tok("data-reactid", 12), Tok("data-react-helmet", 17),
   Tok("data-server-rendered", 20), Tok("v-bind", 6), Tok("v-on:", 5),
   Tok("ng-version", 10), Tok("_nghost", 7), Tok("_ngcontent", 10)}
HoldsAny(html, toks) == \E i \in 1..Len(html) : html[i] \in toks
RuleOrder(content) ==
  IF ~content.ok THEN "unknown"
  ELSE IF HoldsAny(content.val, ServerMarkers) THEN "server"
  ELSE IF \/ HoldsAny(content.val, HydrationFingerprints)
          \/ /\ StringLength(bodyContent(content.val)) < 500
             /\ ~HoldsAny(bodyContent(content.val),
                          {Tok("<article", 8), Tok("<section", 8)})
       THEN "client"
  ELSE "unknown"
C32_RenderRules ==
  \A r \in Runs :
    (local[r].content # None /\ local[r].renderMethod # None)
      => local[r].renderMethod[1] = RuleOrder(local[r].content[1])


\* C33: every extracted element has a selector, which is '#id' when it has
\* an id; otherwise its class selector unless that matches more than one
\* element; otherwise the shortest chain of at most 4 levels that matches
\* this element only; otherwise its class selector or, without classes, its tag.
RECURSIVE ChainOf(_, _, _)
ChainOf(doc, n, levels) ==
  IF levels = 1 THEN <<partFor(doc, n)>>
  ELSE IF doc[n].parent = 0 THEN <<>>
  ELSE LET upper == ChainOf(doc, doc[n].parent, levels - 1)
       IN IF upper = <<>> THEN <<>> ELSE upper \o <<partFor(doc, n)>>
MatchedBy(doc, sel) == {m \in 1..Len(doc) : MatchesSelector(doc, m, sel)}
PlainSelector(doc, n) ==
  IF doc[n].classes # <<>> THEN <<ClassCompound(doc[n].classes)>>
  ELSE <<TagCompound(doc[n].tag, <<>>)>>
ByPriority(doc, n, allowed) ==
  LET exact == {k \in allowed : /\ ChainOf(doc, n, k) # <<>>
                                /\ MatchedBy(doc, ChainOf(doc, n, k)) = {n}}
  IN IF doc[n].id # None THEN <<IdCompound(doc[n].id[1])>>
     ELSE IF /\ doc[n].classes # <<>>
             /\ Cardinality(MatchedBy(doc, <<ClassCompound(doc[n].classes)>>)) <= 1
       THEN <<ClassCompound(doc[n].classes)>>
     ELSE IF exact # {}
       THEN ChainOf(doc, n, CHOOSE k \in exact : \A j \in exact : k <= j)
     ELSE PlainSelector(doc, n)
TextElements(doc) == {n \in 1..Len(doc) : doc[n].tag \in {"p", "span"}}
Derived(r) ==
  /\ call[r].via = "extract"
  /\ local[r].content # None
  /\ local[r].result # None
SelectorsAre(r, Wanted(_, _)) ==
  LET doc == local[r].content[1]
      result == local[r].result[1]
  IN /\ Len(result) = Cardinality(TextElements(doc))
     /\ \A k \in 1..Len(result) :
          /\ result[k].selector # <<>>
          /\ \E n \in TextElements(doc) :
               /\ Cardinality({m \in TextElements(doc) : m < n}) = k - 1
               /\ result[k].selector = Wanted(doc, n)
AnyFourLevels(doc, n) == ByPriority(doc, n, 1..4)
C33_SelectorPriority ==
  \A r \in Runs : Derived(r) => SelectorsAre(r, AnyFourLevels)

\* The priority as getUniqueSelector has it: the chain does not climb past
\* an ancestor that has an id.
NoIdBelow(doc, n, levels) ==
  \A k \in 1..(levels - 1) :
    LET chain == ChainOf(doc, n, k)
    IN chain # <<>> => chain[1].id = None
UpToAnchor(doc, n) ==
  ByPriority(doc, n, {k \in 1..4 : NoIdBelow(doc, n, k)})
SelectorPriorityToAnchor ==
  \A r \in Runs : Derived(r) => SelectorsAre(r, UpToAnchor)


\* ------------------------------------------------------------------- C34

CleanupStarts(r) == pc[r] = "idle" /\ call'[r].via = "cleanup"
CleanupResolves(r) ==
  /\ call'[r].via = "cleanup"
  /\ pc[r] # "done" /\ pc'[r] = "done"
  /\ returned'[r][1].ok
CleanupRejects(r) ==
  /\ call'[r].via = "cleanup"
  /\ pc[r] # "done" /\ pc'[r] = "done"
  /\ ~returned'[r][1].ok

\* C34: cleanup calls browser.close() only when the context is closed; when
\* cleanup resolves, isInitialized() is false and getContext() throws; a
\* cleanup of a manager that holds nothing closes nothing and resolves; an
\* analysis started on a manager without browser launches one; and when
\* context.close() fails, cleanup rejects.
C34_Cleanup ==
  [][\A r \in Runs :
       /\ (browser /\ ~browser') => ~context
       /\ pc'[r] = "cleanupBrowser" => ~context'
       /\ CleanupResolves(r) => (~isInitialized' /\ ~getContext'.ok)
       /\ (CleanupStarts(r) /\ ~browser /\ ~context) =>
            (CleanupResolves(r) /\ ~browser' /\ ~context')
       /\ (~browser /\ pc[r] = "idle" /\ call'[r].via = "direct" /\ pc'[r] # "done") =>
            Launches(r)
       /\ (pc[r] = "cleanupContext" /\ pc'[r] # "cleanupContext"
             /\ local'[r].error # None) =>
            (CleanupRejects(r) /\ returned'[r][1].err = local'[r].error[1])]_vars

\* the first call cleaned up an initialized manager, closing both; the
\* second is an analysis that launches a browser again
C34_Witness ==
  /\ call[1].via = "cleanup"
  /\ pc[1] = "done"
  /\ returned[1] = Some(Ok(<<>>))
  /\ ~browser /\ ~context
  /\ pc[2] = "launch"


\* ------------------------------------------------------------------- C35

InFlight(r) == pc[r] \notin {"idle", "done"}
Terminated(r) ==
  /\ pc[r] = "done"
  /\ returned[r] # None
  /\ page[r] \in {"none", "closed", "closeFailed"}
  /\ returned[r][1].ok => page[r] = "closed"

IsHttp(url) == UrlParses(url) /\ url[1] \in {"http://", "https://"}
ArgumentsInvalid(o) ==
  \/ ~IsHttp(o.url)
  \/ o.waitTime = Mistyped
  \/ o.waitTime # None /\ o.waitTime # Mistyped
       /\ (o.waitTime[1] < 0 \/ o.waitTime[1] > 10000)
  \/ o.includeImages = Mistyped
  \/ o.quickMode = Mistyped
RejectedUnstarted(r) ==
  /\ pc'[r] = "done"
  /\ response'[r] # None
  /\ ~response'[r][1].ok
  /\ response'[r][1].err.code = "InvalidParams"
  /\ returned'[r] = None
  /\ UNCHANGED <<analysisResults, browser, context, page>>
ReceivedWait(o) ==
  IF o.quickMode = Some(TRUE) THEN 1000
  ELSE IF o.waitTime = None THEN 3000
  ELSE o.waitTime[1]

\* C36: a call of the analyze tool whose URL is not an http(s) URL, whose
\* waitTime is not a number from 0 to 10000, or whose includeImages or
\* quickMode is not a boolean is answered InvalidParams, the analyzer is not
\* invoked and the stored reports are unchanged; otherwise the analyzer is
\* invoked with waitTime 1000 in quick mode, 3000 when waitTime is omitted,
\* and the given waitTime else.
C36_ArgumentsValidated ==
  [][\A r \in Runs : \A o \in ValidateOptions :
       handleAnalyzeWebsite(r, o) =>
         IF ArgumentsInvalid(o) THEN RejectedUnstarted(r)
         ELSE /\ pc'[r] \notin {"idle", "done"}
              /\ call'[r].waitTime = ReceivedWait(o)]_vars


\* ------------------------------------------------------------------- C37

\* calls suspended in chromium.launch() / in browser.newContext()
Launching == {r \in Runs : pc[r] = "launch"}
CreatingContext == {r \in Runs : pc[r] = "newContext"}

\* C37: whatever the interleaving of concurrent analyze calls, at most one
\* call is launching a browser and at most one is creating a context at any
\* time, and none does while the manager holds one: every browser launched
\* and every context created becomes the one the manager refers to.
C37_SingleInitialization ==
  /\ Cardinality(Launching) <= 1
  /\ Cardinality(CreatingContext) <= 1
  /\ browser => Launching = {}
  /\ context => CreatingContext = {}


\* ------------------------------------------------------------------- C38

\* the response to the k-th request of the page of call r arrives in this step
ResponseTo(r, k) ==
  /\ k \in 1..Len(requestEvents[r])
  /\ ~requestEvents[r][k].responded
  /\ requestEvents'[r][k].responded

IsAnalysis(r) == call[r].via \in {"tool", "direct"}

\* C39: a call of analyzeWebsite never calls page.close() a second time, and
\* when it has returned or thrown after opening a page it has called
\* page.close() exactly once, whether it ended with a report, with a failure
\* of one of its steps or with a failure of close itself.
C39_ClosedExactlyOnce ==
  \A r \in Runs :
    IsAnalysis(r) =>
      /\ local[r].closeCalls <= 1
      /\ ExitedWithPage(r) => local[r].closeCalls = 1


\* ------------------------------------------------------------------- C40

\* what get_request_summary and get_requests_by_domain answer for a stored
\* report
SummaryOf(url) ==
  generateAnalysisSummary(analysisResults[url], RequestsOf(analysisResults[url]))
ByDomainOf(url, domain) == getRequestsByDomain([url |-> url, domain |-> Some(domain)])

\* C40: for every stored report, each entry of the summary's domains list
\* counts as many requests as get_requests_by_domain returns exchanges for
\* that domain, at least one, and the counts of all entries add up to the
\* summary's totalRequests.
C40_SummaryAgreesWithByDomain ==
  \A url \in DOMAIN analysisResults :
    LET domains == SummaryOf(url).domains
    IN /\ \A i \in 1..Len(domains) :
            /\ ByDomainOf(url, domains[i].domain).ok
            /\ domains[i].requestCount =
                 Len(ByDomainOf(url, domains[i].domain).val.requests)
            /\ domains[i].requestCount >= 1
       /\ SumOf([i \in 1..Len(domains) |-> domains[i].requestCount])
            = SummaryOf(url).requestSummary.totalRequests

====
